---- MODULE Spec2Model ----
(***************************************************************************)
(* Model of the tag query and filtering engine of zotero-tag-visualizer:   *)
(* BooleanQueryParser and AdvancedFilter (advanced_filters.py) and         *)
(* TagProcessor (tag_processor.py).                                        *)
(*                                                                         *)
(* A Python str is a sequence of one-character strings, so that upper(),   *)
(* lower(), strip(), split(), the substring test and the regular           *)
(* expressions of the source are computed character by character.         *)
(* A Python dict is a sequence of <<key, value>> pairs with distinct keys, *)
(* in insertion order.  An optional value is <<>> (None) or <<v>>.         *)
(***************************************************************************)
EXTENDS Integers, Sequences, FiniteSets, TLC

VARIABLES
    boolean_query,   \* the query string typed by the user (app.py "boolean-query")
    tags_data,       \* the raw tag list delivered by the tag source
    items_source,    \* the item list delivered by the item source
    preset_input,    \* <<name, criteria>> handed to create_filter_preset
    processed_tags,  \* TagProcessor.processed_tags
    items_data,      \* TagProcessor.items_data
    metadata_cache,  \* TagProcessor.metadata_cache
    query_expr,      \* the expression returned by the last parse_query
    call,            \* the last call made and its arguments
    ret,             \* what the last call returned
    form,            \* the values of the filter form (app.py State(...) values)
    filter_presets_data,  \* dcc.Store "filter-presets-data" of the page
    preferences,     \* the value stored under "filter_presets" in the database
    target_tag,      \* the tag typed into the analysis input (app.py "tag-analysis-input")
    requests,        \* per browser page: its preset store and its save request in flight
    write_order      \* the pages in the order in which their save_preference committed

vars == <<boolean_query, tags_data, items_source, preset_input, processed_tags,
          items_data, metadata_cache, query_expr, call, ret, form,
          filter_presets_data, preferences, target_tag, requests, write_order>>

\* the page and the database, which the engine's own methods never touch
session == <<form, filter_presets_data, preferences, target_tag, requests, write_order>>

\* the pages of several browsers and their requests
concurrent == <<requests, write_order>>

None == <<>>

Some(v) == <<v>>

(***************************************************************************)
(* Characters and the str methods the source uses.                         *)
(***************************************************************************)
LowerLetters == <<"a","b","c","d","e","f","g","h","i","j","k","l","m",
                  "n","o","p","q","r","s","t","u","v","w","x","y","z">>

UpperLetters == <<"A","B","C","D","E","F","G","H","I","J","K","L","M",
                  "N","O","P","Q","R","S","T","U","V","W","X","Y","Z">>

Range(f) == {f[i] : i \in DOMAIN f}

\* str.upper() and str.lower() on one character
ToUpper == [c \in Range(LowerLetters) |->
                UpperLetters[CHOOSE i \in DOMAIN LowerLetters : LowerLetters[i] = c]]

ToLower == [c \in Range(UpperLetters) |->
                LowerLetters[CHOOSE i \in DOMAIN UpperLetters : UpperLetters[i] = c]]

UpperChar(c) == IF c \in DOMAIN ToUpper THEN ToUpper[c] ELSE c

LowerChar(c) == IF c \in DOMAIN ToLower THEN ToLower[c] ELSE c

upper(s) == [i \in 1..Len(s) |-> UpperChar(s[i])]

lower(s) == [i \in 1..Len(s) |-> LowerChar(s[i])]

Digits == <<"0","1","2","3","4","5","6","7","8","9">>

\* \d of the re module
IsDigit(c) == c \in Range(Digits)

\* \w of the re module, over the characters the model uses
WordChars == Range(LowerLetters) \cup Range(UpperLetters) \cup Range(Digits) \cup {"_"}

IsWordChar(c) == c \in WordChars

\* \s of the re module and the whitespace of str.strip()
IsSpace(c) == c = " "

\* s[i:i+len(w)] == w
MatchAt(s, i, w) ==
    /\ i + Len(w) - 1 <= Len(s)
    /\ \A k \in 1..Len(w) : s[i + k - 1] = w[k]

\* Python's "sub in s"
Contains(s, sub) == \E i \in 1..(Len(s) - Len(sub) + 1) : MatchAt(s, i, sub)

\* str.strip(chars) with a one-character argument
RECURSIVE LStripChar(_, _)
LStripChar(s, c) == IF s # <<>> /\ Head(s) = c THEN LStripChar(Tail(s), c) ELSE s

RECURSIVE RStripChar(_, _)
RStripChar(s, c) ==
    IF s # <<>> /\ s[Len(s)] = c THEN RStripChar(SubSeq(s, 1, Len(s) - 1), c) ELSE s

StripChar(s, c) == RStripChar(LStripChar(s, c), c)

\* str.strip()
strip(s) == StripChar(s, " ")

\* the first index >= i at which sep occurs in s, or 0
RECURSIVE FindFrom(_, _, _)
FindFrom(s, sep, i) ==
    IF i + Len(sep) - 1 > Len(s) THEN 0
    ELSE IF MatchAt(s, i, sep) THEN i
    ELSE FindFrom(s, sep, i + 1)

\* str.split(sep) for a non-empty sep
RECURSIVE SplitFrom(_, _, _)
SplitFrom(s, sep, i) ==
    LET j == FindFrom(s, sep, i) IN
    IF j = 0 THEN << SubSeq(s, i, Len(s)) >>
    ELSE << SubSeq(s, i, j - 1) >> \o SplitFrom(s, sep, j + Len(sep))

split(s, sep) == SplitFrom(s, sep, 1)

\* sep.join(parts)
RECURSIVE join(_, _)
join(sep, parts) ==
    IF parts = <<>> THEN <<>>
    ELSE IF Len(parts) = 1 THEN parts[1]
    ELSE parts[1] \o sep \o join(sep, Tail(parts))

(***************************************************************************)
(* dict operations                                                         *)
(***************************************************************************)
Keys(d) == {d[i][1] : i \in DOMAIN d}

HasKey(d, k) == \E i \in DOMAIN d : d[i][1] = k

Get(d, k) == d[CHOOSE i \in DOMAIN d : d[i][1] = k][2]

\* d[k] = v : an existing key keeps its position
DictSet(d, k, v) ==
    IF HasKey(d, k)
    THEN [i \in DOMAIN d |-> IF d[i][1] = k THEN <<k, v>> ELSE d[i]]
    ELSE Append(d, <<k, v>>)

(***************************************************************************)
(* BooleanQueryParser (advanced_filters.py)                                *)
(***************************************************************************)
AND == <<"A","N","D">>

OR == <<"O","R">>

NOT == <<"N","O","T">>

\* self.operators: a set of str, iterated in an order that the interpreter's
\* string hashing decides; OperatorOrders are the orders a run can see
operators == {AND, OR, NOT}

OperatorOrders ==
    {o \in [1..3 -> operators] : \A i, j \in 1..3 : i # j => o[i] # o[j]}

\* re.sub(rf'\b{op}\b', f' {op} ', s), scanning from index i
RECURSIVE re_sub_operator(_, _, _)
re_sub_operator(op, s, i) ==
    IF i > Len(s) THEN <<>>
    ELSE IF /\ MatchAt(s, i, op)
            /\ (i = 1 \/ ~IsWordChar(s[i - 1]))
            /\ (i + Len(op) - 1 = Len(s) \/ ~IsWordChar(s[i + Len(op)]))
         THEN <<" ">> \o op \o <<" ">> \o re_sub_operator(op, s, i + Len(op))
         ELSE <<s[i]>> \o re_sub_operator(op, s, i + 1)

\* re.sub(r'\s+', ' ', s)
RECURSIVE re_sub_spaces(_)
re_sub_spaces(s) ==
    IF s = <<>> THEN <<>>
    ELSE IF IsSpace(Head(s))
         THEN <<" ">> \o re_sub_spaces(LStripChar(s, " "))
         ELSE <<Head(s)>> \o re_sub_spaces(Tail(s))

\* the for loop of _normalize_query over the operators in iteration order
RECURSIVE SpaceOperators(_, _)
SpaceOperators(order, s) ==
    IF order = <<>> THEN s
    ELSE SpaceOperators(Tail(order), re_sub_operator(Head(order), s, 1))

\* a loop that stops at the first operator it finds in the query
RECURSIVE SpaceFirstOperator(_, _)
SpaceFirstOperator(order, s) ==
    IF order = <<>> THEN s
    ELSE IF re_sub_operator(Head(order), s, 1) # s
         THEN re_sub_operator(Head(order), s, 1)
         ELSE SpaceFirstOperator(Tail(order), s)

normalize_query_first_operator(query, order) ==
    strip(re_sub_spaces(SpaceFirstOperator(order, upper(query))))

_normalize_query(query, order) ==
    strip(re_sub_spaces(SpaceOperators(order, upper(query))))

\* the character loop of _tokenize
RECURSIVE TokenizeFrom(_, _, _, _, _)
TokenizeFrom(query, i, tokens, current_token, in_quotes) ==
    IF i > Len(query)
    THEN IF current_token # <<>> THEN Append(tokens, current_token) ELSE tokens
    ELSE IF query[i] = "\""
         THEN TokenizeFrom(query, i + 1, tokens, Append(current_token, query[i]), ~in_quotes)
         ELSE IF query[i] = " " /\ ~in_quotes
              THEN IF current_token # <<>>
                   THEN TokenizeFrom(query, i + 1, Append(tokens, current_token), <<>>, in_quotes)
                   ELSE TokenizeFrom(query, i + 1, tokens, current_token, in_quotes)
              ELSE TokenizeFrom(query, i + 1, tokens, Append(current_token, query[i]), in_quotes)

_tokenize(query) == TokenizeFrom(query, 1, <<>>, <<>>, FALSE)

EmptyExpression ==
    [type |-> "expression", terms |-> <<>>, operators |-> <<>>, negated_terms |-> <<>>]

\* what a list index out of range raises
IndexError == [type |-> "IndexError"]

\* the while loop of _parse_expression; i is the 1-based index of the token
RECURSIVE ParseFrom(_, _, _)
ParseFrom(tokens, i, expression) ==
    IF i > Len(tokens) THEN expression
    ELSE IF tokens[i] = NOT /\ i + 1 <= Len(tokens)
         THEN IF i + 1 \in DOMAIN tokens
              THEN ParseFrom(tokens, i + 2,
                       [expression EXCEPT !.negated_terms =
                            Append(@, StripChar(tokens[i + 1], "\""))])
              ELSE IndexError
         ELSE IF tokens[i] \in {AND, OR}
              THEN ParseFrom(tokens, i + 1,
                       [expression EXCEPT !.operators = Append(@, tokens[i])])
              ELSE IF tokens[i] \notin operators
                   THEN ParseFrom(tokens, i + 1,
                            [expression EXCEPT !.terms =
                                 Append(@, StripChar(tokens[i], "\""))])
                   ELSE ParseFrom(tokens, i + 1, expression)

\* the loop without the "i + 1 < len(tokens)" test
RECURSIVE ParseFromUnguarded(_, _, _)
ParseFromUnguarded(tokens, i, expression) ==
    IF i > Len(tokens) THEN expression
    ELSE IF tokens[i] = NOT
         THEN IF i + 1 \in DOMAIN tokens
              THEN ParseFromUnguarded(tokens, i + 2,
                       [expression EXCEPT !.negated_terms =
                            Append(@, StripChar(tokens[i + 1], "\""))])
              ELSE IndexError
         ELSE IF tokens[i] \in {AND, OR}
              THEN ParseFromUnguarded(tokens, i + 1,
                       [expression EXCEPT !.operators = Append(@, tokens[i])])
              ELSE ParseFromUnguarded(tokens, i + 1,
                       [expression EXCEPT !.terms =
                            Append(@, StripChar(tokens[i], "\""))])

parse_expression_unguarded(tokens) == ParseFromUnguarded(tokens, 1, EmptyExpression)

_parse_expression(tokens) == ParseFrom(tokens, 1, EmptyExpression)

parse_query(query, order) == _parse_expression(_tokenize(_normalize_query(query, order)))

\* term.lower() in tag.lower() for some tag of item_tags
TermMatches(term, item_tags) ==
    LET term_lower == lower(term) IN
    \E i \in DOMAIN item_tags : Contains(lower(item_tags[i]), term_lower)

evaluate_query_and_wins(expr, item_tags) ==
    LET item_tags_lower == [i \in DOMAIN item_tags |-> lower(item_tags[i])] IN
    IF \E k \in DOMAIN expr.negated_terms :
           lower(expr.negated_terms[k]) \in Range(item_tags_lower)
    THEN FALSE
    ELSE IF expr.terms = <<>> THEN TRUE
    ELSE IF expr.operators = <<>>
         THEN \E k \in DOMAIN expr.terms : TermMatches(expr.terms[k], item_tags)
    ELSE IF AND \in Range(expr.operators)
         THEN \A k \in DOMAIN expr.terms : TermMatches(expr.terms[k], item_tags)
         ELSE \E k \in DOMAIN expr.terms : TermMatches(expr.terms[k], item_tags)

evaluate_query_same_label(expr, item_tags) ==
    LET item_tags_lower == [i \in DOMAIN item_tags |-> lower(item_tags[i])] IN
    IF \E k \in DOMAIN expr.negated_terms :
           lower(expr.negated_terms[k]) \in Range(item_tags_lower)
    THEN FALSE
    ELSE IF expr.terms = <<>> THEN TRUE
    ELSE IF expr.operators = <<>>
         THEN \E k \in DOMAIN expr.terms : TermMatches(expr.terms[k], item_tags)
    ELSE IF OR \in Range(expr.operators)
         THEN \E k \in DOMAIN expr.terms : TermMatches(expr.terms[k], item_tags)
         ELSE \E i \in DOMAIN item_tags :
                  \A k \in DOMAIN expr.terms : TermMatches(expr.terms[k], <<item_tags[i]>>)

evaluate_query(expr, item_tags) ==
    LET item_tags_lower == [i \in DOMAIN item_tags |-> lower(item_tags[i])] IN
    IF \E k \in DOMAIN expr.negated_terms :
           lower(expr.negated_terms[k]) \in Range(item_tags_lower)
    THEN FALSE
    ELSE IF expr.terms = <<>> THEN TRUE
    ELSE IF expr.operators = <<>>
         THEN \E k \in DOMAIN expr.terms : TermMatches(expr.terms[k], item_tags)
    ELSE IF OR \in Range(expr.operators)
         THEN \E k \in DOMAIN expr.terms : TermMatches(expr.terms[k], item_tags)
         ELSE \A k \in DOMAIN expr.terms : TermMatches(expr.terms[k], item_tags)

(***************************************************************************)
(* TagProcessor (tag_processor.py)                                         *)
(*                                                                         *)
(* A tag entry of the sources is a dict {tag, meta: {numItems}} or a str:  *)
(* [kind |-> "dict", tag |-> name, numItems |-> optional count]            *)
(* [kind |-> "str",  tag |-> name, numItems |-> None]                      *)
(***************************************************************************)
DictTag(name, count) == [kind |-> "dict", tag |-> name, numItems |-> count]

StrTag(name) == [kind |-> "str", tag |-> name, numItems |-> None]

\* the loop of process_zotero_tags
RECURSIVE ProcessTagInfos(_, _)
ProcessTagInfos(infos, tag_freq) ==
    IF infos = <<>> THEN tag_freq
    ELSE LET tag_info == Head(infos)
             tag_name == tag_info.tag
             count == IF tag_info.kind = "dict" /\ tag_info.numItems # None
                      THEN tag_info.numItems[1]
                      ELSE 1
         IN  ProcessTagInfos(Tail(infos),
                 IF tag_name # <<>> THEN DictSet(tag_freq, tag_name, count) ELSE tag_freq)

process_zotero_tags_first_wins(infos) ==
    ProcessTagInfos([i \in DOMAIN infos |-> infos[Len(infos) + 1 - i]], <<>>)

process_zotero_tags(infos) == ProcessTagInfos(infos, <<>>)

filter_by_frequency_exclusive(tags, min_freq, max_freq) ==
    SelectSeq(tags, LAMBDA e : e[2] > min_freq /\ (max_freq = None \/ e[2] <= max_freq[1]))

filter_by_frequency(tags, min_freq, max_freq) ==
    SelectSeq(tags, LAMBDA e : e[2] >= min_freq /\ (max_freq = None \/ e[2] <= max_freq[1]))

\* sorted(items, key=lambda x: x[1], reverse=True): a stable sort, so that
\* entries of equal count keep their order
RECURSIVE InsertByCount(_, _)
InsertByCount(sorted, e) ==
    IF sorted = <<>> THEN <<e>>
    ELSE IF Head(sorted)[2] >= e[2]
         THEN <<Head(sorted)>> \o InsertByCount(Tail(sorted), e)
         ELSE <<e>> \o sorted

RECURSIVE SortByCountDesc(_)
SortByCountDesc(items) ==
    IF items = <<>> THEN <<>>
    ELSE InsertByCount(SortByCountDesc(SubSeq(items, 1, Len(items) - 1)), items[Len(items)])

\* seq[:n]
SliceTo(seq, n) ==
    IF n >= 0
    THEN SubSeq(seq, 1, IF n < Len(seq) THEN n ELSE Len(seq))
    ELSE SubSeq(seq, 1, IF Len(seq) + n > 0 THEN Len(seq) + n ELSE 0)

get_top_tags_unsorted(tags, n) == SliceTo(tags, n)

get_top_tags(tags, n) == SliceTo(SortByCountDesc(tags), n)

\* sum, max and min of the counts of a non-empty tag map
RECURSIVE SumCounts(_)
SumCounts(tags) == IF tags = <<>> THEN 0 ELSE Head(tags)[2] + SumCounts(Tail(tags))

MaxCountOf(tags) == CHOOSE m \in {tags[i][2] : i \in DOMAIN tags} :
                        \A i \in DOMAIN tags : tags[i][2] <= m

MinCountOf(tags) == CHOOSE m \in {tags[i][2] : i \in DOMAIN tags} :
                        \A i \in DOMAIN tags : tags[i][2] >= m

\* a / b of two ints is the fraction <<a, b>>: the counts of a library are far
\* below 2^53, where the float quotient is the nearest float to the fraction
TrueDivide(a, b) == <<a, b>>

FloorDivide(a, b) == <<a \div b, 1>>

get_tag_statistics_floor(tags) ==
    IF tags = <<>> THEN <<>>
    ELSE << <<"total_tags", Len(tags)>>,
            <<"total_occurrences", SumCounts(tags)>>,
            <<"avg_frequency", FloorDivide(SumCounts(tags), Len(tags))>>,
            <<"max_frequency", MaxCountOf(tags)>>,
            <<"min_frequency", MinCountOf(tags)>>,
            <<"unique_tags", Len(SelectSeq(tags, LAMBDA e : e[2] = 1))>> >>

\* the returned dict, {} for an empty tag map
get_tag_statistics(tags) ==
    IF tags = <<>> THEN <<>>
    ELSE << <<"total_tags", Len(tags)>>,
            <<"total_occurrences", SumCounts(tags)>>,
            <<"avg_frequency", TrueDivide(SumCounts(tags), Len(tags))>>,
            <<"max_frequency", MaxCountOf(tags)>>,
            <<"min_frequency", MinCountOf(tags)>>,
            <<"unique_tags", Len(SelectSeq(tags, LAMBDA e : e[2] = 1))>> >>

\* 'data' in item and 'tags' in item['data']
HasTags(item) == item.data # None /\ item.data[1].tags # None

\* tag_info.get('tag', '') if isinstance(tag_info, dict) else str(tag_info),
\* kept when non-empty
RECURSIVE TagNames(_)
TagNames(infos) ==
    IF infos = <<>> THEN <<>>
    ELSE (IF Head(infos).tag # <<>> THEN <<Head(infos).tag>> ELSE <<>>) \o TagNames(Tail(infos))

ItemTagNames(item) == IF HasTags(item) THEN TagNames(item.data[1].tags[1]) ELSE <<>>

\* Counter(all_tags) as a dict: keys in order of first occurrence
RECURSIVE CountTags(_, _)
CountTags(all_tags, counter) ==
    IF all_tags = <<>> THEN counter
    ELSE CountTags(Tail(all_tags),
             DictSet(counter, Head(all_tags),
                     (IF HasKey(counter, Head(all_tags)) THEN Get(counter, Head(all_tags)) ELSE 0) + 1))

RECURSIVE AllTags(_)
AllTags(items) ==
    IF items = <<>> THEN <<>> ELSE ItemTagNames(Head(items)) \o AllTags(Tail(items))

\* all_tags of process_items_tags: tag_info['tag'] of every dict with the key
\* and every plain string, the empty name included
RECURSIVE AllTagInstances(_)
AllTagInstances(items) ==
    IF items = <<>> THEN <<>>
    ELSE (IF HasTags(Head(items))
          THEN [k \in DOMAIN Head(items).data[1].tags[1] |-> Head(items).data[1].tags[1][k].tag]
          ELSE <<>>) \o AllTagInstances(Tail(items))

\* tag_item_map: tag -> list of the (0-based) indices of the items bearing it
RECURSIVE TagItemMap(_, _, _)
TagItemMap(items, i, map) ==
    IF i > Len(items) THEN map
    ELSE LET names == ItemTagNames(items[i])
             AddAll[k \in 0..Len(names)] ==
                 IF k = 0 THEN map
                 ELSE DictSet(AddAll[k - 1], names[k],
                          Append(IF HasKey(AddAll[k - 1], names[k])
                                 THEN Get(AddAll[k - 1], names[k]) ELSE <<>>, i - 1))
         IN  TagItemMap(items, i + 1, AddAll[Len(names)])

\* cooccurrence[x][y] += 1 on a defaultdict of defaultdict(int)
Increment(cooccurrence, x, y) ==
    LET inner == IF HasKey(cooccurrence, x) THEN Get(cooccurrence, x) ELSE <<>>
        old == IF HasKey(inner, y) THEN Get(inner, y) ELSE 0
    IN  DictSet(cooccurrence, x, DictSet(inner, y, old + 1))

IncrementOneWay(cooccurrence, tag1, tag2) == Increment(cooccurrence, tag1, tag2)

\* the body of the pair loop
IncrementPair(cooccurrence, tag1, tag2) ==
    Increment(Increment(cooccurrence, tag1, tag2), tag2, tag1)

\* for i in range(len(item_tags)): for j in range(i + 1, len(item_tags))
RECURSIVE CountPairs(_, _, _, _)
CountPairs(item_tags, i, j, cooccurrence) ==
    IF i > Len(item_tags) THEN cooccurrence
    ELSE IF j > Len(item_tags) THEN CountPairs(item_tags, i + 1, i + 2, cooccurrence)
    ELSE CountPairs(item_tags, i, j + 1, IncrementPair(cooccurrence, item_tags[i], item_tags[j]))

\* the loop over self.items_data
RECURSIVE CountItems(_, _)
CountItems(items, cooccurrence) ==
    IF items = <<>> THEN cooccurrence
    ELSE CountItems(Tail(items),
             IF HasTags(Head(items))
             THEN CountPairs(ItemTagNames(Head(items)), 1, 2, cooccurrence)
             ELSE cooccurrence)

\* the local variable cooccurrence when the item loop ends
RawCooccurrence(items) == CountItems(items, <<>>)

PruneInnerAbove(cooccur_dict, min_cooccurrence) ==
    SelectSeq(cooccur_dict, LAMBDA e : e[2] > min_cooccurrence)

\* {tag2: count for tag2, count in cooccur_dict.items() if count >= min_cooccurrence}
PruneInner(cooccur_dict, min_cooccurrence) ==
    SelectSeq(cooccur_dict, LAMBDA e : e[2] >= min_cooccurrence)

\* the filtering loop: a tag whose filtered dict is empty gets no key
RECURSIVE PruneAll(_, _)
PruneAll(cooccurrence, min_cooccurrence) ==
    IF cooccurrence = <<>> THEN <<>>
    ELSE LET filtered_dict == PruneInner(Head(cooccurrence)[2], min_cooccurrence) IN
         (IF filtered_dict # <<>> THEN << <<Head(cooccurrence)[1], filtered_dict>> >> ELSE <<>>)
             \o PruneAll(Tail(cooccurrence), min_cooccurrence)

get_tag_cooccurrence_matrix(items, min_cooccurrence) ==
    IF items = <<>> THEN <<>>
    ELSE PruneAll(RawCooccurrence(items), min_cooccurrence)

AddChildAlways(hierarchical_tags, parent, child) ==
    IF parent # <<>> /\ child # <<>>
    THEN DictSet(hierarchical_tags, parent,
             Append(IF HasKey(hierarchical_tags, parent)
                    THEN Get(hierarchical_tags, parent) ELSE <<>>, child))
    ELSE hierarchical_tags

\* if parent and child and child not in hierarchical_tags[parent]:
\*     hierarchical_tags[parent].append(child)
AddChild(hierarchical_tags, parent, child) ==
    IF parent # <<>> /\ child # <<>>
    THEN LET children == IF HasKey(hierarchical_tags, parent)
                         THEN Get(hierarchical_tags, parent) ELSE <<>>
         IN  IF child \notin Range(children)
             THEN DictSet(hierarchical_tags, parent, Append(children, child))
             ELSE hierarchical_tags
    ELSE hierarchical_tags

\* for i in range(len(parts) - 1), i counted from 1 here
RECURSIVE BuildHierarchy(_, _, _, _)
BuildHierarchy(parts, separator, i, hierarchical_tags) ==
    IF i > Len(parts) - 1 THEN hierarchical_tags
    ELSE BuildHierarchy(parts, separator, i + 1,
             AddChild(hierarchical_tags,
                      strip(join(separator, SubSeq(parts, 1, i))),
                      strip(join(separator, SubSeq(parts, 1, i + 1)))))

\* the loop over self.processed_tags.keys()
RECURSIVE ParseHierarchy(_, _, _)
ParseHierarchy(tags, separator, hierarchical_tags) ==
    IF tags = <<>> THEN hierarchical_tags
    ELSE LET tag == Head(tags)[1] IN
         ParseHierarchy(Tail(tags), separator,
             IF Contains(tag, separator) /\ Len(split(tag, separator)) > 1
             THEN BuildHierarchy(split(tag, separator), separator, 1, hierarchical_tags)
             ELSE hierarchical_tags)

parse_hierarchical_tags(tags, separator) == ParseHierarchy(tags, separator, <<>>)

\* the except branch of get_tags_by_boolean_query
FallbackSearch(tags, query) ==
    LET query_lower == lower(query)
        and_terms == [k \in DOMAIN split(query_lower, lower(AND)) |->
                          strip(split(query_lower, lower(AND))[k])]
        or_terms == [k \in DOMAIN split(query_lower, lower(OR)) |->
                         strip(split(query_lower, lower(OR))[k])]
    IN  SelectSeq(tags, LAMBDA e :
            IF Contains(query_lower, lower(AND))
            THEN \A k \in DOMAIN and_terms : Contains(lower(e[1]), and_terms[k])
            ELSE IF Contains(query_lower, lower(OR))
                 THEN \E k \in DOMAIN or_terms : Contains(lower(e[1]), or_terms[k])
                 ELSE Contains(lower(e[1]), query_lower))

\* the body of get_tags_by_boolean_query once parser.parse_query(query) has
\* returned or raised: the tags returned, and whether the except branch
\* produced them
TagsMatching(tags, query, expr) ==
    IF expr.type = "expression"
    THEN [excepted |-> FALSE,
          matching_tags |-> SelectSeq(tags, LAMBDA e : evaluate_query(expr, <<e[1]>>))]
    ELSE [excepted |-> TRUE, matching_tags |-> FallbackSearch(tags, query)]

get_tags_by_boolean_query(tags, query, order) ==
    TagsMatching(tags, query, parse_query(query, order))

(***************************************************************************)
(* AdvancedFilter presets (advanced_filters.py)                            *)
(***************************************************************************)
\* the fields of the FilterCriteria dataclass
CriteriaFields ==
    {"search_terms", "item_types", "start_year", "end_year", "creators", "languages",
     "collections", "min_frequency", "max_frequency", "regex_pattern", "exclude_patterns"}

\* a FilterCriteria() with every field unset, beside an unset boolean query
NoCriteria == [f \in CriteriaFields \cup {"boolean_query"} |-> None]

\* the filter form as the layout serves it: every input empty.  A str input is
\* a sequence of characters and a list input a sequence, None or empty being
\* <<>> (the callbacks only test their truth); a number input is None or
\* Some(n).
NoForm ==
    [search_term |-> None, min_freq |-> None, max_freq |-> None, max_tags |-> None,
     item_types |-> None, start_year |-> None, end_year |-> None,
     creator_filter |-> None, languages |-> None, collections |-> None]

create_filter_preset_year_slip(name, criteria, now) ==
    [name |-> name,
     criteria |-> [f \in CriteriaFields |->
                       IF f = "end_year" THEN criteria["start_year"] ELSE criteria[f]],
     created_at |-> now]

\* now is pd.Timestamp.now().isoformat()
create_filter_preset(name, criteria, now) ==
    [name |-> name,
     criteria |-> [f \in CriteriaFields |-> criteria[f]],
     created_at |-> now]

\* dict.get(key): None when the key is missing
DictGet(d, key) == IF key \in DOMAIN d THEN d[key] ELSE None

load_filter_preset(preset_data) ==
    LET criteria_data == IF "criteria" \in DOMAIN preset_data
                         THEN preset_data.criteria
                         ELSE [f \in {} |-> None]
    IN  [f \in CriteriaFields |-> DictGet(criteria_data, f)]

(***************************************************************************)
(* AdvancedFilter item matching (advanced_filters.py)                      *)
(* An item is [data |-> optional record]; every key of the record is an    *)
(* optional value, None when the key is missing.  A creator is a record    *)
(* [firstName, lastName] of strings.                                       *)
(***************************************************************************)
\* the truth of an optional list or str, and of an optional number
TruthyList(opt) == opt # None /\ opt[1] # <<>>

TruthyNumber(opt) == opt # None /\ opt[1] # 0

\* int() of a string of digits
RECURSIVE int(_)
int(s) ==
    IF s = <<>> THEN 0
    ELSE 10 * int(SubSeq(s, 1, Len(s) - 1))
             + (CHOOSE d \in 0..9 : Digits[d + 1] = s[Len(s)])

\* whether r'\b(19|20)\d{2}\b' matches s at index i
YearAt(s, i) ==
    /\ i + 3 <= Len(s)
    /\ i = 1 \/ ~IsWordChar(s[i - 1])
    /\ MatchAt(s, i, <<"1","9">>) \/ MatchAt(s, i, <<"2","0">>)
    /\ IsDigit(s[i + 2]) /\ IsDigit(s[i + 3])
    /\ i + 3 = Len(s) \/ ~IsWordChar(s[i + 4])

\* int(re.search(r'\b(19|20)\d{2}\b', s).group()), None without a match
re_search_year(s) ==
    IF \E i \in DOMAIN s : YearAt(s, i)
    THEN LET first == CHOOSE i \in DOMAIN s : YearAt(s, i) /\ \A j \in 1..(i - 1) : ~YearAt(s, j)
         IN  Some(int(SubSeq(s, first, first + 3)))
    ELSE None

_matches_year_range(data, start_year, end_year) ==
    IF ~TruthyList(data.date) THEN FALSE
    ELSE LET year_match == re_search_year(data.date[1]) IN
         IF year_match = None THEN FALSE
         ELSE IF TruthyNumber(start_year) /\ year_match[1] < start_year[1] THEN FALSE
         ELSE IF TruthyNumber(end_year) /\ year_match[1] > end_year[1] THEN FALSE
         ELSE TRUE

\* f"{creator.get('firstName', '')} {creator.get('lastName', '')}".strip()
CreatorName(creator) == strip(creator.firstName \o <<" ">> \o creator.lastName)

_matches_creators(data, creators) ==
    IF data.creators = None THEN FALSE
    ELSE \E k \in DOMAIN creators : \E c \in DOMAIN data.creators[1] :
             Contains(lower(CreatorName(data.creators[1][c])), lower(creators[k]))

\* the tag names of an item, as _extract_tags returns them
_extract_tags(item) == ItemTagNames(item)

_matches_search_terms(item_tags, search_terms) ==
    \E k \in DOMAIN search_terms : \E t \in DOMAIN item_tags :
        Contains(lower(item_tags[t]), lower(search_terms[k]))

\* re.search(pattern, tag, re.IGNORECASE) for a pattern without
\* metacharacters
re_search_ignorecase(pattern, tag) == Contains(lower(tag), lower(pattern))

\* data.get(key) in allowed, for the optional value of the key
InList(value, allowed) == value # None /\ value[1] \in Range(allowed)

_item_matches_criteria(item, criteria) ==
    IF item.data = None THEN FALSE
    ELSE LET data == item.data[1]
             item_tags == _extract_tags(item)
         IN
         IF TruthyList(criteria.item_types) /\ ~InList(data.itemType, criteria.item_types[1])
         THEN FALSE
         ELSE IF /\ TruthyNumber(criteria.start_year) \/ TruthyNumber(criteria.end_year)
                 /\ ~_matches_year_range(data, criteria.start_year, criteria.end_year)
         THEN FALSE
         ELSE IF TruthyList(criteria.creators) /\ ~_matches_creators(data, criteria.creators[1])
         THEN FALSE
         ELSE IF TruthyList(criteria.languages) /\ ~InList(data.language, criteria.languages[1])
         THEN FALSE
         ELSE IF /\ TruthyList(criteria.search_terms)
                 /\ ~_matches_search_terms(item_tags, criteria.search_terms[1])
         THEN FALSE
         ELSE IF /\ TruthyList(criteria.regex_pattern)
                 /\ ~\E t \in DOMAIN item_tags :
                        re_search_ignorecase(criteria.regex_pattern[1], item_tags[t])
         THEN FALSE
         ELSE IF /\ TruthyList(criteria.exclude_patterns)
                 /\ \E k \in DOMAIN criteria.exclude_patterns[1] : \E t \in DOMAIN item_tags :
                        re_search_ignorecase(criteria.exclude_patterns[1][k], item_tags[t])
         THEN FALSE
         ELSE TRUE

apply_filters(items, criteria) ==
    SelectSeq(items, LAMBDA item : _item_matches_criteria(item, criteria))

\* matches_criteria of one item with data in TagProcessor.filter_tags_by_metadata
\* (the collections argument is never read)
matches_criteria(data, item_types, start_year, end_year, creators, languages) ==
    /\ ~(TruthyList(item_types) /\ ~InList(data.itemType, item_types[1]))
    /\ (/\ TruthyNumber(start_year) \/ TruthyNumber(end_year)
        /\ TruthyList(data.date))
           => LET year_match == re_search_year(data.date[1]) IN
              /\ year_match # None
              /\ ~(TruthyNumber(start_year) /\ year_match[1] < start_year[1])
              /\ ~(TruthyNumber(end_year) /\ year_match[1] > end_year[1])
    /\ (TruthyList(creators) /\ data.creators # None)
           => \E k \in DOMAIN creators[1] : \E c \in DOMAIN data.creators[1] :
                  Contains(lower(CreatorName(data.creators[1][c])), lower(creators[1][k]))
    /\ ~(TruthyList(languages) /\ ~InList(data.language, languages[1]))

\* matching_item_indices of filter_tags_by_metadata (0-based)
matching_item_indices(items, item_types, start_year, end_year, creators, languages) ==
    {i - 1 : i \in {j \in DOMAIN items :
                      /\ items[j].data # None
                      /\ matches_criteria(items[j].data[1], item_types, start_year,
                                          end_year, creators, languages)}}

\* the count of each tag of tag_item_map over the matching items, tags
\* without a matching item left out
CountMatching(tag_item_map, matching) ==
    LET counted == [k \in DOMAIN tag_item_map |->
                       <<tag_item_map[k][1],
                         Len(SelectSeq(tag_item_map[k][2], LAMBDA idx : idx \in matching))>>]
    IN  SelectSeq(counted, LAMBDA e : e[2] > 0)

filter_tags_by_metadata(tags, items, cache, item_types, start_year, end_year, creators, collections, languages) ==
    IF items = <<>> THEN tags
    ELSE CountMatching(IF HasKey(cache, "tag_item_map") THEN Get(cache, "tag_item_map")
                       ELSE <<>>,
                       matching_item_indices(items, item_types, start_year, end_year,
                                             creators, languages))

\* the loop of clean_tags over the items of processed_tags: a cleaned name
\* that is already a key takes the later count
RECURSIVE CleanFrom(_, _, _, _)
CleanFrom(tags, min_length, max_length, cleaned_tags) ==
    IF tags = <<>> THEN cleaned_tags
    ELSE LET clean_tag == re_sub_spaces(strip(Head(tags)[1])) IN
         CleanFrom(Tail(tags), min_length, max_length,
                   IF min_length <= Len(clean_tag) /\ Len(clean_tag) <= max_length
                          /\ clean_tag # <<>>
                   THEN DictSet(cleaned_tags, clean_tag, Head(tags)[2])
                   ELSE cleaned_tags)

clean_tags(tags, min_length, max_length) == CleanFrom(tags, min_length, max_length, <<>>)

\* search_tags_advanced for patterns without metacharacters; query and
\* regex_pattern are strs, tag_length_range None or a pair
search_tags_advanced(tags, query, regex_pattern, tag_length_range, exclude_patterns) ==
    SelectSeq(tags, LAMBDA e :
        /\ ~(query # <<>> /\ ~Contains(lower(e[1]), lower(query)))
        /\ ~(regex_pattern # <<>> /\ ~re_search_ignorecase(regex_pattern, e[1]))
        /\ tag_length_range # None =>
               (tag_length_range[1][1] <= Len(e[1]) /\ Len(e[1]) <= tag_length_range[1][2])
        /\ ~\E k \in DOMAIN exclude_patterns : re_search_ignorecase(exclude_patterns[k], e[1]))

(***************************************************************************)
(* The filter pipeline of the page (app.py update_visualization_advanced)  *)
(* and the two lookups it makes in the local Zotero library                *)
(* (zotero_local_client.py).  The library is the item list of the item     *)
(* source; a lookup either reaches it (ok) or fails, by a status other     *)
(* than 200 or an exception, which the client turns into an empty answer.  *)
(***************************************************************************)
search_tags(tags, search_term) ==
    SelectSeq(tags, LAMBDA e : Contains(lower(e[1]), lower(search_term)))

\* item.get('data', {}): every key missing when the item has no data
DataOf(item) ==
    IF item.data # None THEN item.data[1]
    ELSE [itemType |-> None, date |-> None, creators |-> None, language |-> None,
          collections |-> None, tags |-> None]

\* the filter loop of ZoteroLocalClient.get_items_by_metadata
PassesMetadata(data, item_types, languages, start_year, end_year) ==
    /\ item_types # <<>> => InList(data.itemType, item_types)
    /\ languages # <<>> => InList(data.language, languages)
    /\ TruthyNumber(start_year) \/ TruthyNumber(end_year) =>
           /\ TruthyList(data.date)
           /\ re_search_year(data.date[1]) # None
           /\ TruthyNumber(start_year) => re_search_year(data.date[1])[1] >= start_year[1]
           /\ TruthyNumber(end_year) => re_search_year(data.date[1])[1] <= end_year[1]

get_items_by_metadata(library, outcome, item_types, languages, start_year, end_year) ==
    IF outcome # "ok" THEN <<>>
    ELSE SelectSeq(library, LAMBDA item :
             PassesMetadata(DataOf(item), item_types, languages, start_year, end_year))

\* item.get('data', {}).get('tags', [])
TagObjects(item) == IF DataOf(item).tags = None THEN <<>> ELSE DataOf(item).tags[1]

\* tag_obj.get('tag') raises AttributeError on a tag that is a plain str
TagGetRaises(items) ==
    \E i \in DOMAIN items : \E k \in DOMAIN TagObjects(items[i]) :
        TagObjects(items[i])[k].kind = "str"

\* the set of non-empty tag_obj.get('tag') over the items
TagSet(items) == UNION {Range(ItemTagNames(items[i])) : i \in DOMAIN items}

\* the items the server returns for /collections/{collection_key}/items
CollectionItems(library, collection_key) ==
    SelectSeq(library, LAMBDA item :
        DataOf(item).collections # None
            /\ collection_key \in Range(DataOf(item).collections[1]))

\* the keys of ZoteroLocalClient.get_tags_for_collection(collection_key); its
\* own except turns an exception into {}
get_tags_for_collection(library, outcome, collection_key) ==
    IF outcome # "ok" \/ TagGetRaises(CollectionItems(library, collection_key)) THEN {}
    ELSE TagSet(CollectionItems(library, collection_key))

Disabled == <<"d","i","s","a","b","l","e","d">>

SearchThenQuery(tag_freq, search_term, query, expr) ==
    LET found == IF search_term # <<>> THEN search_tags(tag_freq, search_term)
                 ELSE tag_freq
    IN  IF query # <<>> THEN TagsMatching(found, query, expr).matching_tags
        ELSE found

\* step 1 of the body: search_tags when there is a search term and no boolean
\* query, get_tags_by_boolean_query when there is a boolean query; expr is
\* what parse_query returned for the query
SearchOrQuery(tag_freq, search_term, query, expr) ==
    IF query # <<>> THEN TagsMatching(tag_freq, query, expr).matching_tags
    ELSE IF search_term # <<>> THEN search_tags(tag_freq, search_term)
    ELSE tag_freq

\* the metadata block: no tag is kept when metadata_tags is empty, and the
\* except of the block leaves filtered_tags as it was
MetadataFilter(filtered_tags, library, lookup, f) ==
    IF ~(f.item_types # <<>> \/ f.languages # <<>>
             \/ TruthyNumber(f.start_year) \/ TruthyNumber(f.end_year))
    THEN filtered_tags
    ELSE LET matching_items == get_items_by_metadata(library, lookup.items, f.item_types,
                                                     f.languages, f.start_year, f.end_year)
         IN  IF TagGetRaises(matching_items) THEN filtered_tags
             ELSE SelectSeq(filtered_tags, LAMBDA e : e[1] \in TagSet(matching_items))

\* the creator block: tags whose name contains the creator filter
CreatorFilter(filtered_tags, creator_filter) ==
    IF creator_filter = <<>> THEN filtered_tags
    ELSE SelectSeq(filtered_tags, LAMBDA e : Contains(lower(e[1]), lower(creator_filter)))

\* the collection block
CollectionFilter(filtered_tags, library, lookup, collections) ==
    IF collections = <<>> THEN filtered_tags
    ELSE LET collection_tags ==
                 UNION {get_tags_for_collection(library,
                            IF collections[k] \in lookup.failed THEN "failed" ELSE "ok",
                            collections[k]) :
                        k \in {j \in DOMAIN collections : collections[j] # Disabled}}
         IN  SelectSeq(filtered_tags, LAMBDA e : e[1] \in collection_tags)

update_visualization_min_zero(raw_tags, f, query, expr, library, lookup) ==
    LET tag_freq == SearchOrQuery(process_zotero_tags(raw_tags), f.search_term, query, expr)
        min_freq == IF TruthyNumber(f.min_freq) THEN f.min_freq[1] ELSE 0
        by_frequency == filter_by_frequency(tag_freq, min_freq, f.max_freq)
        by_metadata == MetadataFilter(by_frequency, library, lookup, f)
        by_creator == CreatorFilter(by_metadata, f.creator_filter)
        by_collection == CollectionFilter(by_creator, library, lookup, f.collections)
    IN  IF raw_tags = <<>> THEN None
        ELSE IF TruthyNumber(f.max_tags) THEN get_top_tags(by_collection, f.max_tags[1])
        ELSE by_collection

update_visualization_top_first(raw_tags, f, query, expr, library, lookup) ==
    LET top == IF TruthyNumber(f.max_tags)
               THEN get_top_tags(process_zotero_tags(raw_tags), f.max_tags[1])
               ELSE process_zotero_tags(raw_tags)
        tag_freq == SearchOrQuery(top, f.search_term, query, expr)
        min_freq == IF TruthyNumber(f.min_freq) THEN f.min_freq[1] ELSE 1
        by_frequency == filter_by_frequency(tag_freq, min_freq, f.max_freq)
        by_metadata == MetadataFilter(by_frequency, library, lookup, f)
        by_creator == CreatorFilter(by_metadata, f.creator_filter)
    IN  IF raw_tags = <<>> THEN None
        ELSE CollectionFilter(by_creator, library, lookup, f.collections)

\* the body of update_visualization_advanced up to the returned filtered_tags:
\* f is the form, expr what parse_query returned for the query, lookup the
\* outcome of the item lookup and the collection keys whose lookup fails
update_visualization_advanced(raw_tags, f, query, expr, library, lookup) ==
    LET tag_freq == SearchOrQuery(process_zotero_tags(raw_tags), f.search_term, query, expr)
        min_freq == IF TruthyNumber(f.min_freq) THEN f.min_freq[1] ELSE 1
        by_frequency == filter_by_frequency(tag_freq, min_freq, f.max_freq)
        by_metadata == MetadataFilter(by_frequency, library, lookup, f)
        by_creator == CreatorFilter(by_metadata, f.creator_filter)
        by_collection == CollectionFilter(by_creator, library, lookup, f.collections)
    IN  IF raw_tags = <<>> THEN None
        ELSE IF TruthyNumber(f.max_tags) THEN get_top_tags(by_collection, f.max_tags[1])
        ELSE by_collection

(***************************************************************************)
(* Saving presets from the page (app.py manage_filter_presets,             *)
(* initialize_filter_presets) into the preferences table (database.py).    *)
(* save_preference stores json.dumps(value) and get_preference returns     *)
(* json.loads of it: a preset holds only None, ints, strs and lists and    *)
(* dicts of them, which that round trip returns equal.                     *)
(***************************************************************************)
\* str() of a natural number
RECURSIVE str(_)
str(n) == IF n < 10 THEN <<Digits[n + 1]>> ELSE str(n \div 10) \o <<Digits[(n % 10) + 1]>>

\* FilterCriteria(...) as manage_filter_presets builds it from the form
FormCriteria(f) ==
    [NoCriteria EXCEPT
        !.search_terms = IF f.search_term # <<>> THEN Some(<<f.search_term>>) ELSE None,
        !.item_types = IF f.item_types # <<>> THEN Some(f.item_types) ELSE None,
        !.start_year = f.start_year,
        !.end_year = f.end_year,
        !.creators = IF f.creator_filter # <<>> THEN Some(<<f.creator_filter>>) ELSE None,
        !.languages = IF f.languages # <<>> THEN Some(f.languages) ELSE None,
        !.collections = IF f.collections # <<>> THEN Some(f.collections) ELSE None,
        !.min_frequency = f.min_freq,
        !.max_frequency = f.max_freq]

preset_name(existing_presets, f, query) ==
    IF f.search_term # <<>>
    THEN <<"S","e","a","r","c","h",":"," ">> \o SliceTo(f.search_term, 20)
    ELSE IF query # <<>>
    THEN <<"Q","u","e","r","y",":"," ">> \o SliceTo(query, 20)
    ELSE IF f.item_types # <<>>
    THEN <<"T","y","p","e","s",":"," ">> \o join(<<",", " ">>, SliceTo(f.item_types, 2))
    ELSE <<"F","i","l","t","e","r"," ">> \o str(Len(existing_presets) + 1)

\* the preset manage_filter_presets appends: create_filter_preset's dict with
\* the boolean query added
NewPreset(existing_presets, f, query, now) ==
    LET preset == create_filter_preset(preset_name(existing_presets, f, query),
                                       FormCriteria(f), now)
    IN  [k \in DOMAIN preset \cup {"boolean_query"} |->
            IF k = "boolean_query" THEN query ELSE preset[k]]

\* d.get(key, default) on a record standing for a dict
DictGetDefault(d, key, default) == IF key \in DOMAIN d THEN d[key] ELSE default

\* what the page writes into a str input or a list input for an optional
\* value: None and the empty value both show as empty
Shown(opt) == IF opt = None THEN <<>> ELSE opt[1]

no_update == [no_update |-> TRUE]

restore_preset_shifted(preset_index, presets_data) ==
    IF preset_index = None \/ presets_data = <<>> \/ preset_index[1] >= Len(presets_data)
    THEN no_update
    ELSE LET preset == presets_data[preset_index[1] + 1]
             criteria == DictGetDefault(preset, "criteria", [f \in {} |-> None])
         IN  [search_term |-> <<>>,
              min_freq |-> DictGetDefault(criteria, "max_frequency", None),
              max_freq |-> DictGetDefault(criteria, "max_frequency", None),
              boolean_query |-> DictGetDefault(preset, "boolean_query", <<>>),
              creator_filter |-> <<>>,
              item_types |-> Shown(DictGetDefault(criteria, "item_types", Some(<<>>))),
              languages |-> Shown(DictGetDefault(criteria, "languages", Some(<<>>))),
              collections |-> Shown(DictGetDefault(criteria, "collections", Some(<<>>))),
              start_year |-> DictGetDefault(criteria, "start_year", None),
              end_year |-> DictGetDefault(criteria, "end_year", None)]

\* load_filter_preset of app.py: the ten values it returns for the inputs of
\* the form, or no_update
restore_preset(preset_index, presets_data) ==
    IF preset_index = None \/ presets_data = <<>> \/ preset_index[1] >= Len(presets_data)
    THEN no_update
    ELSE LET preset == presets_data[preset_index[1] + 1]
             criteria == DictGetDefault(preset, "criteria", [f \in {} |-> None])
             search_terms == DictGetDefault(criteria, "search_terms", Some(<<>>))
             creators == DictGetDefault(criteria, "creators", Some(<<>>))
         IN  [search_term |-> IF TruthyList(search_terms) THEN search_terms[1][1] ELSE <<>>,
              min_freq |-> DictGetDefault(criteria, "min_frequency", Some(1)),
              max_freq |-> DictGetDefault(criteria, "max_frequency", None),
              boolean_query |-> DictGetDefault(preset, "boolean_query", <<>>),
              creator_filter |-> IF TruthyList(creators) THEN creators[1][1] ELSE <<>>,
              item_types |-> Shown(DictGetDefault(criteria, "item_types", Some(<<>>))),
              languages |-> Shown(DictGetDefault(criteria, "languages", Some(<<>>))),
              collections |-> Shown(DictGetDefault(criteria, "collections", Some(<<>>))),
              start_year |-> DictGetDefault(criteria, "start_year", None),
              end_year |-> DictGetDefault(criteria, "end_year", None)]

\* db.get_preference("filter_presets", []) on the stored value
get_preference(stored) == stored

save_preference_merge(stored, value) == stored \o <<value[Len(value)]>>

\* db.save_preference("filter_presets", value): INSERT OR REPLACE of the row,
\* one statement in one transaction; what is stored becomes value
save_preference(stored, value) == value

(***************************************************************************)
(* The tag analysis of the page (app.py analyze_tag_relationships).  The   *)
(* callback returns page components; the model returns what they show:     *)
(* the matching tags, the best match, the sorted candidates as             *)
(* <<tag, freq, overlap>> and the suggested queries.                       *)
(***************************************************************************)
\* s.split(): the words between runs of spaces
RECURSIVE WordsFrom(_, _, _)
WordsFrom(s, i, word) ==
    IF i > Len(s) THEN (IF word = <<>> THEN <<>> ELSE <<word>>)
    ELSE IF IsSpace(s[i])
         THEN (IF word = <<>> THEN <<>> ELSE <<word>>) \o WordsFrom(s, i + 1, <<>>)
         ELSE WordsFrom(s, i + 1, Append(word, s[i]))

\* set(s.lower().split())
LowerWords(s) == Range(WordsFrom(lower(s), 1, <<>>))

\* min(matching_tags, key=len): the first of the shortest
ShortestOf(matching_tags) ==
    matching_tags[CHOOSE i \in DOMAIN matching_tags :
                      /\ \A j \in DOMAIN matching_tags :
                             Len(matching_tags[i]) <= Len(matching_tags[j])
                      /\ \A j \in 1..(i - 1) : Len(matching_tags[j]) > Len(matching_tags[i])]

\* the candidates in the order of processed_tags
Candidates(tags, best_match) ==
    LET target_words == LowerWords(best_match)
        entry(e) == <<e[1], e[2], Cardinality(target_words \cap LowerWords(e[1]))>>
        listed == SelectSeq(tags, LAMBDA e :
                      /\ e[1] # best_match
                      /\ \/ entry(e)[3] > 0
                         \/ \E word \in target_words : Contains(lower(e[1]), word))
    IN  [k \in DOMAIN listed |-> entry(listed[k])]

RECURSIVE InsertByFrequencyFirst(_, _)
InsertByFrequencyFirst(sorted, e) ==
    IF sorted = <<>> THEN <<e>>
    ELSE IF \/ Head(sorted)[2] > e[2]
            \/ Head(sorted)[2] = e[2] /\ Head(sorted)[3] >= e[3]
         THEN <<Head(sorted)>> \o InsertByFrequencyFirst(Tail(sorted), e)
         ELSE <<e>> \o sorted

\* cooccurring_tags.sort(key=lambda x: (x[2], x[1]), reverse=True): a stable
\* sort, so that entries of equal key keep their order
RECURSIVE InsertByOverlap(_, _)
InsertByOverlap(sorted, e) ==
    IF sorted = <<>> THEN <<e>>
    ELSE IF \/ Head(sorted)[3] > e[3]
            \/ Head(sorted)[3] = e[3] /\ Head(sorted)[2] >= e[2]
         THEN <<Head(sorted)>> \o InsertByOverlap(Tail(sorted), e)
         ELSE <<e>> \o sorted

RECURSIVE SortCandidates(_)
SortCandidates(candidates) ==
    IF candidates = <<>> THEN <<>>
    ELSE InsertByOverlap(SortCandidates(SubSeq(candidates, 1, Len(candidates) - 1)),
                         candidates[Len(candidates)])

\* f'"{a}" {op} "{b}"'
Suggestion(a, op, b) == <<"\"">> \o a \o <<"\"", " ">> \o op \o <<" ", "\"">> \o b \o <<"\"">>

analyze_tag_relationships(target, tags) ==
    IF target = <<>> \/ tags = <<>> THEN [kind |-> "enter_a_tag"]
    ELSE LET matching_tags ==
                 SelectSeq([k \in DOMAIN tags |-> tags[k][1]],
                           LAMBDA tag : Contains(lower(tag), lower(target)))
         IN  IF matching_tags = <<>> THEN [kind |-> "no_tags_found"]
             ELSE LET best_match == ShortestOf(matching_tags)
                      cooccurring_tags == SortCandidates(Candidates(tags, best_match))
                  IN  [kind |-> "results",
                       matching_tags |-> matching_tags,
                       best_match |-> best_match,
                       cooccurring_tags |-> cooccurring_tags,
                       suggestions |->
                           (IF cooccurring_tags # <<>>
                            THEN << Suggestion(best_match, AND, cooccurring_tags[1][1]),
                                    Suggestion(best_match, OR, cooccurring_tags[1][1]) >>
                            ELSE <<>>)
                           \o (IF Len(matching_tags) > 1
                               THEN << Suggestion(best_match, NOT, matching_tags[2]) >>
                               ELSE <<>>)]

(***************************************************************************)
(* Operations.  Every action is one call; call records the call and its    *)
(* arguments, ret what it returned.  TagProcessor.tags_data is only ever   *)
(* written (process_zotero_tags stores its argument there), so the model   *)
(* keeps the argument in tags_data and no second copy.                     *)
(***************************************************************************)
NoExpression == [type |-> "none"]

\* TagProcessor.process_zotero_tags(tags_data)
ProcessZoteroTags ==
    /\ processed_tags' = process_zotero_tags(tags_data)
    /\ ret' = process_zotero_tags(tags_data)
    /\ call' = [op |-> "process_zotero_tags"]
    /\ UNCHANGED <<session, boolean_query, tags_data, items_source, preset_input, items_data,
                   metadata_cache, query_expr>>

\* TagProcessor.process_items_tags(items)
ProcessItemsTags ==
    /\ processed_tags' = CountTags(AllTagInstances(items_source), <<>>)
    /\ ret' = processed_tags'
    /\ call' = [op |-> "process_items_tags"]
    /\ UNCHANGED <<session, boolean_query, tags_data, items_source, preset_input,
                   items_data, metadata_cache, query_expr>>

\* TagProcessor.process_items_with_metadata(items)
ProcessItemsWithMetadata ==
    /\ items_data' = items_source
    /\ processed_tags' = CountTags(AllTags(items_source), <<>>)
    /\ metadata_cache' = <<  <<"tag_item_map", TagItemMap(items_source, 1, <<>>)>>  >>
    /\ ret' = processed_tags'
    /\ call' = [op |-> "process_items_with_metadata"]
    /\ UNCHANGED <<session, boolean_query, tags_data, items_source, preset_input, query_expr>>

\* TagProcessor.filter_by_frequency(min_freq, max_freq)
FilterByFrequency(min_freq, max_freq) ==
    /\ ret' = filter_by_frequency(processed_tags, min_freq, max_freq)
    /\ call' = [op |-> "filter_by_frequency", min_freq |-> min_freq, max_freq |-> max_freq]
    /\ UNCHANGED <<session, boolean_query, tags_data, items_source, preset_input, processed_tags,
                   items_data, metadata_cache, query_expr>>

GetTopTagsStoring(n) ==
    /\ ret' = get_top_tags(processed_tags, n)
    /\ processed_tags' = ret'
    /\ call' = [op |-> "get_top_tags", n |-> n]
    /\ UNCHANGED <<session, boolean_query, tags_data, items_source, preset_input,
                   items_data, metadata_cache, query_expr>>

\* TagProcessor.get_top_tags(n)
GetTopTags(n) ==
    /\ ret' = get_top_tags(processed_tags, n)
    /\ call' = [op |-> "get_top_tags", n |-> n]
    /\ UNCHANGED <<session, boolean_query, tags_data, items_source, preset_input, processed_tags,
                   items_data, metadata_cache, query_expr>>

\* TagProcessor.clean_tags(min_length, max_length)
CleanTags(min_length, max_length) ==
    /\ processed_tags' = clean_tags(processed_tags, min_length, max_length)
    /\ ret' = processed_tags'
    /\ call' = [op |-> "clean_tags", min_length |-> min_length, max_length |-> max_length]
    /\ UNCHANGED <<session, boolean_query, tags_data, items_source, preset_input,
                   items_data, metadata_cache, query_expr>>

\* TagProcessor.search_tags(search_term)
SearchTags(search_term) ==
    /\ ret' = search_tags(processed_tags, search_term)
    /\ call' = [op |-> "search_tags", search_term |-> search_term]
    /\ UNCHANGED <<session, boolean_query, tags_data, items_source, preset_input,
                   processed_tags, items_data, metadata_cache, query_expr>>

\* TagProcessor.search_tags_advanced(query, regex_pattern, tag_length_range,
\* exclude_patterns)
SearchTagsAdvanced(query, regex_pattern, tag_length_range, exclude_patterns) ==
    /\ ret' = search_tags_advanced(processed_tags, query, regex_pattern, tag_length_range,
                                   exclude_patterns)
    /\ call' = [op |-> "search_tags_advanced", query |-> query,
                regex_pattern |-> regex_pattern, tag_length_range |-> tag_length_range,
                exclude_patterns |-> exclude_patterns]
    /\ UNCHANGED <<session, boolean_query, tags_data, items_source, preset_input,
                   processed_tags, items_data, metadata_cache, query_expr>>

\* TagProcessor.get_tag_statistics()
GetTagStatistics ==
    /\ ret' = get_tag_statistics(processed_tags)
    /\ call' = [op |-> "get_tag_statistics"]
    /\ UNCHANGED <<session, boolean_query, tags_data, items_source, preset_input,
                   processed_tags, items_data, metadata_cache, query_expr>>

\* TagProcessor.get_tag_cooccurrence_matrix(min_cooccurrence); the call record
\* keeps the local cooccurrence as it is before the filtering loop
GetTagCooccurrenceMatrix(min_cooccurrence) ==
    /\ ret' = get_tag_cooccurrence_matrix(items_data, min_cooccurrence)
    /\ call' = [op |-> "get_tag_cooccurrence_matrix",
                min_cooccurrence |-> min_cooccurrence,
                cooccurrence |-> RawCooccurrence(items_data)]
    /\ UNCHANGED <<session, boolean_query, tags_data, items_source, preset_input, processed_tags,
                   items_data, metadata_cache, query_expr>>

\* TagProcessor.parse_hierarchical_tags(separator)
ParseHierarchicalTags(separator) ==
    /\ ret' = parse_hierarchical_tags(processed_tags, separator)
    /\ call' = [op |-> "parse_hierarchical_tags", separator |-> separator]
    /\ UNCHANGED <<session, boolean_query, tags_data, items_source, preset_input, processed_tags,
                   items_data, metadata_cache, query_expr>>

\* BooleanQueryParser().parse_query(boolean_query), in a run whose operator set
\* iterates in any of its orders
ParseQuery ==
    /\ \E expr \in {parse_query(boolean_query, order) : order \in OperatorOrders} :
          query_expr' = expr
    /\ ret' = query_expr'
    /\ call' = [op |-> "parse_query"]
    /\ UNCHANGED <<session, boolean_query, tags_data, items_source, preset_input, processed_tags,
                   items_data, metadata_cache>>

\* parser.evaluate_query(query_expr, item_tags) on a parsed expression
EvaluateQuery(item_tags) ==
    /\ query_expr.type = "expression"
    /\ ret' = evaluate_query(query_expr, item_tags)
    /\ call' = [op |-> "evaluate_query", item_tags |-> item_tags]
    /\ UNCHANGED <<session, boolean_query, tags_data, items_source, preset_input, processed_tags,
                   items_data, metadata_cache, query_expr>>

\* TagProcessor.get_tags_by_boolean_query(boolean_query), in a run whose
\* operator set iterates in any of its orders
GetTagsByBooleanQuery ==
    /\ \E expr \in {parse_query(boolean_query, order) : order \in OperatorOrders} :
          LET r == TagsMatching(processed_tags, boolean_query, expr) IN
          /\ ret' = r.matching_tags
          /\ call' = [op |-> "get_tags_by_boolean_query", excepted |-> r.excepted]
    /\ UNCHANGED <<session, boolean_query, tags_data, items_source, preset_input, processed_tags,
                   items_data, metadata_cache, query_expr>>

\* AdvancedFilter.create_filter_preset(name, criteria) at time now
CreateFilterPreset(now) ==
    /\ ret' = create_filter_preset(preset_input[1], preset_input[2], now)
    /\ call' = [op |-> "create_filter_preset"]
    /\ UNCHANGED <<session, boolean_query, tags_data, items_source, preset_input, processed_tags,
                   items_data, metadata_cache, query_expr>>

\* AdvancedFilter.load_filter_preset(preset) on the preset just created
LoadFilterPreset ==
    /\ call.op = "create_filter_preset"
    /\ ret' = load_filter_preset(ret)
    /\ call' = [op |-> "load_filter_preset"]
    /\ UNCHANGED <<session, boolean_query, tags_data, items_source, preset_input, processed_tags,
                   items_data, metadata_cache, query_expr>>

\* AdvancedFilter.apply_filters(items, criteria)
ApplyFilters ==
    /\ ret' = apply_filters(items_source, preset_input[2])
    /\ call' = [op |-> "apply_filters"]
    /\ UNCHANGED <<session, boolean_query, tags_data, items_source, preset_input,
                   processed_tags, items_data, metadata_cache, query_expr>>

\* TagProcessor.filter_tags_by_metadata(...) with the fields of the criteria
\* as its arguments; the call records the indices it matched
FilterTagsByMetadata ==
    LET c == preset_input[2] IN
    /\ ret' = filter_tags_by_metadata(processed_tags, items_data, metadata_cache,
                                      c.item_types, c.start_year, c.end_year,
                                      c.creators, c.collections, c.languages)
    /\ call' = [op |-> "filter_tags_by_metadata",
                matching |-> IF items_data = <<>> THEN None
                             ELSE Some(matching_item_indices(items_data, c.item_types,
                                           c.start_year, c.end_year, c.creators,
                                           c.languages))]
    /\ UNCHANGED <<session, boolean_query, tags_data, items_source, preset_input,
                   processed_tags, items_data, metadata_cache, query_expr>>

\* update_visualization_advanced on the form, in a run whose operator set
\* iterates in any of its orders and whose lookups have any outcome; the
\* callback works on a TagProcessor of its own
UpdateVisualizationAdvanced ==
    /\ \E expr \in {parse_query(boolean_query, order) : order \in OperatorOrders},
          items \in {"ok", "failed"}, failed \in SUBSET Range(form.collections) :
          /\ ret' = update_visualization_advanced(tags_data, form, boolean_query, expr,
                                                  items_source,
                                                  [items |-> items, failed |-> failed])
          /\ call' = [op |-> "update_visualization_advanced",
                      lookup |-> [items |-> items, failed |-> failed]]
    /\ UNCHANGED <<session, boolean_query, tags_data, items_source, preset_input,
                   processed_tags, items_data, metadata_cache, query_expr>>

\* manage_filter_presets on a click of the save button at time now: the new
\* preset is appended to the list of the page's store, and that list is what
\* save_preference writes
ManageFilterPresets(now) ==
    LET existing_presets == Append(filter_presets_data,
                                   NewPreset(filter_presets_data, form, boolean_query, now))
    IN  /\ preferences' = existing_presets
        /\ filter_presets_data' = existing_presets
        /\ ret' = existing_presets
        /\ call' = [op |-> "manage_filter_presets", persisted |-> preferences]
        /\ UNCHANGED <<target_tag, concurrent, form, boolean_query, tags_data, items_source, preset_input,
                       processed_tags, items_data, metadata_cache, query_expr>>

\* page c fires manage_filter_presets on a click of its save button: the
\* request carries the form and the page's preset store as State values,
\* and the callback starts with existing_presets = [] for a store of None
ClickSave(c, f, query) ==
    /\ requests[c].pc = "idle"
    /\ requests' = [requests EXCEPT ![c] =
           [pc |-> "called", store |-> requests[c].store, form |-> f, query |-> query,
            existing_presets |-> requests[c].store]]
    /\ ret' = None
    /\ call' = [op |-> "click_save", caller |-> c]
    /\ UNCHANGED <<target_tag, write_order, form, filter_presets_data, preferences, boolean_query,
                   tags_data, items_source, preset_input, processed_tags, items_data,
                   metadata_cache, query_expr>>

\* the callback of page c appends its new preset to its existing_presets and
\* save_preference commits the list
SavePreference(c, now) ==
    /\ requests[c].pc = "called"
    /\ LET r == requests[c]
           existing_presets == Append(r.existing_presets,
                                      NewPreset(r.existing_presets, r.form, r.query, now))
       IN  /\ preferences' = save_preference(preferences, existing_presets)
           /\ requests' = [requests EXCEPT ![c] =
                  [r EXCEPT !.pc = "saved", !.existing_presets = existing_presets]]
    /\ write_order' = Append(write_order, c)
    /\ ret' = None
    /\ call' = [op |-> "save_preference", caller |-> c]
    /\ UNCHANGED <<target_tag, form, filter_presets_data, boolean_query, tags_data, items_source,
                   preset_input, processed_tags, items_data, metadata_cache, query_expr>>

\* the callback of page c returns its list, which becomes the page's store
ReturnPresets(c) ==
    /\ requests[c].pc = "saved"
    /\ requests' = [requests EXCEPT ![c] =
           [pc |-> "idle", store |-> requests[c].existing_presets]]
    /\ ret' = requests[c].existing_presets
    /\ call' = [op |-> "return_presets", caller |-> c]
    /\ UNCHANGED <<target_tag, write_order, form, filter_presets_data, preferences, boolean_query,
                   tags_data, items_source, preset_input, processed_tags, items_data,
                   metadata_cache, query_expr>>

\* the user selects entry preset_index of the preset dropdown: the values
\* load_filter_preset returns are written into the inputs of the form
SelectPreset(preset_index) ==
    LET values == restore_preset(preset_index, filter_presets_data) IN
    /\ IF values = no_update
       THEN UNCHANGED <<form, boolean_query>>
       ELSE /\ form' = [k \in DOMAIN form |->
                           IF k \in DOMAIN values THEN values[k] ELSE form[k]]
            /\ boolean_query' = values.boolean_query
    /\ ret' = values
    /\ call' = [op |-> "load_filter_preset", preset_index |-> preset_index]
    /\ UNCHANGED <<target_tag, concurrent, filter_presets_data, preferences, tags_data, items_source,
                   preset_input, processed_tags, items_data, metadata_cache, query_expr>>

\* analyze_tag_relationships on the analysis input and the "processed-tags"
\* store, which holds the processed tag map
AnalyzeTagRelationships ==
    /\ ret' = analyze_tag_relationships(target_tag, processed_tags)
    /\ call' = [op |-> "analyze_tag_relationships"]
    /\ UNCHANGED <<session, boolean_query, tags_data, items_source, preset_input,
                   processed_tags, items_data, metadata_cache, query_expr>>

\* the tag loader writes data into the "tags-data" store, None (<<>>) when
\* loading failed, and initialize_filter_presets runs on it
InitializeFilterPresets(data) ==
    /\ tags_data' = data
    /\ filter_presets_data' = IF data = None THEN <<>> ELSE get_preference(preferences)
    /\ ret' = filter_presets_data'
    /\ call' = [op |-> "initialize_filter_presets"]
    /\ UNCHANGED <<target_tag, concurrent, form, preferences, boolean_query, items_source, preset_input,
                   processed_tags, items_data, metadata_cache, query_expr>>

\* the app is started, or the page is loaded again: the stores and the form
\* are served empty, the database keeps what it holds
ServePage ==
    /\ form' = NoForm
    /\ boolean_query' = <<>>
    /\ tags_data' = None
    /\ filter_presets_data' = None
    /\ ret' = None
    /\ call' = [op |-> "serve_page"]
    /\ UNCHANGED <<target_tag, concurrent, preferences, items_source, preset_input, processed_tags,
                   items_data, metadata_cache, query_expr>>

\* the user fills in the form
FillForm(f, query) ==
    /\ form' = f
    /\ boolean_query' = query
    /\ ret' = None
    /\ call' = [op |-> "fill_form"]
    /\ UNCHANGED <<target_tag, concurrent, filter_presets_data, preferences, tags_data, items_source,
                   preset_input, processed_tags, items_data, metadata_cache, query_expr>>

\* a page just served, over a database without saved presets: the preset
\* store holds None, which the callbacks treat as they treat []
Callers == {1, 2}

\* no save request in flight, every page's preset store as served
NoRequests == [c \in Callers |-> [pc |-> "idle", store |-> None]]

PageServed ==
    /\ form = NoForm
    /\ filter_presets_data = None
    /\ preferences = <<>>
    /\ target_tag = <<>>
    /\ requests = NoRequests
    /\ write_order = <<>>

\* the state of a TagProcessor, a parser and a filter engine after construction
Constructed ==
    /\ processed_tags = <<>>
    /\ items_data = <<>>
    /\ metadata_cache = <<>>
    /\ query_expr = NoExpression
    /\ call = [op |-> "init"]
    /\ ret = None

(***************************************************************************)
(* The boolean query engine: SpecQuery.                                    *)
(* A query is the concatenation of at most MaxFragments fragments.         *)
(***************************************************************************)
MaxFragments == 3

QueryFragments ==
    { <<"x">>, <<" ","y">>, <<" ","A","N","D"," ">>, <<" ","o","r"," ">>,
      <<" ","N","o","t"," ">>, <<"(","O","R">>, <<"\"">> }

RECURSIVE Concatenations(_)
Concatenations(n) ==
    IF n = 0 THEN { <<>> }
    ELSE Concatenations(n - 1)
             \cup {q \o f : q \in Concatenations(n - 1), f \in QueryFragments}

Queries == Concatenations(MaxFragments)

\* the label lists a query is evaluated against
LabelLists ==
    { <<>>,
      << <<"x">> >>,
      << <<"Y">> >>,
      << <<"X"," ","y">> >>,
      << <<"(","x">>, <<"y","z">> >> }

QueryTagsData ==
    { << DictTag(<<"x","y">>, Some(2)), DictTag(<<"Y">>, Some(1)), StrTag(<<"(","x">>),
         DictTag(<<"z">>, Some(3)) >> }

InitQuery ==
    /\ boolean_query \in Queries
    /\ tags_data \in QueryTagsData
    /\ items_source = <<>>
    /\ preset_input = <<None, NoCriteria>>
    /\ Constructed
    /\ PageServed

NextQuery ==
    \/ ProcessZoteroTags
    \/ ParseQuery
    \/ \E item_tags \in LabelLists : EvaluateQuery(item_tags)
    \/ GetTagsByBooleanQuery

SpecQuery == InitQuery /\ [][NextQuery]_vars

\* the order in which one reference run iterates the operator set
ReferenceOrder == <<AND, OR, NOT>>

\* C1: whenever the parsed query has a negated term that is a case-insensitive
\* substring of some label, evaluate_query returns False.
C1_NegationPriority ==
    (/\ call.op = "evaluate_query"
     /\ \E k \in DOMAIN query_expr.negated_terms : \E i \in DOMAIN call.item_tags :
            Contains(lower(call.item_tags[i]), lower(query_expr.negated_terms[k])))
        => ret = FALSE

\* C9: what parse_query, evaluate_query and get_tags_by_boolean_query return is
\* what the reference run returns for the same query and labels, whatever the
\* order in which this run iterated the operator set.
C9_Deterministic ==
    /\ call.op = "parse_query" => ret = parse_query(boolean_query, ReferenceOrder)
    /\ call.op = "evaluate_query" =>
           ret = evaluate_query(parse_query(boolean_query, ReferenceOrder), call.item_tags)
    /\ call.op = "get_tags_by_boolean_query" =>
           ret = get_tags_by_boolean_query(processed_tags, boolean_query,
                                           ReferenceOrder).matching_tags

\* a query in which two operators stand next to characters other than spaces
\* has been parsed and evaluated
C9_Witness ==
    /\ call.op = "evaluate_query"
    /\ call.item_tags # <<>>
    /\ upper(boolean_query) # _normalize_query(boolean_query, ReferenceOrder)
    /\ Len(query_expr.operators) >= 2
    /\ query_expr.terms # <<>>

\* C10: parse_query returns an expression with its three lists for every
\* string, and get_tags_by_boolean_query never returns from its except branch.
C10_ParseTotal ==
    /\ call.op = "parse_query" =>
           /\ ret.type = "expression"
           /\ DOMAIN ret = {"type", "terms", "operators", "negated_terms"}
           /\ Range(ret.operators) \subseteq {AND, OR}
    /\ call.op = "get_tags_by_boolean_query" => ~call.excepted

\* a query that ends in a bare NOT has been run over a non-empty tag map
C10_Witness ==
    /\ call.op = "get_tags_by_boolean_query"
    /\ processed_tags # <<>>
    /\ LET tokens == _tokenize(_normalize_query(boolean_query, ReferenceOrder)) IN
           tokens # <<>> /\ tokens[Len(tokens)] = NOT

\* some negated term of the parsed query is a case-insensitive substring of
\* some label of the call
NegatedTermMatches ==
    \E k \in DOMAIN query_expr.negated_terms : \E i \in DOMAIN call.item_tags :
        Contains(lower(call.item_tags[i]), lower(query_expr.negated_terms[k]))

\* the positive term is a case-insensitive substring of some label of the call
PositiveTermMatches(k) ==
    \E i \in DOMAIN call.item_tags :
        Contains(lower(call.item_tags[i]), lower(query_expr.terms[k]))

\* C19 as stated: when no negated term matches and some operator is OR,
\* evaluate_query returns True if and only if some positive term matches.
C19_OrWins ==
    (/\ call.op = "evaluate_query"
     /\ ~NegatedTermMatches
     /\ OR \in Range(query_expr.operators))
        => (ret <=> \E k \in DOMAIN query_expr.terms : PositiveTermMatches(k))

\* C19 amended: when no negated term matches and some operator is OR,
\* evaluate_query returns True if the query has no positive term, and
\* otherwise if and only if some positive term matches.
C19_OrWinsOverTerms ==
    (/\ call.op = "evaluate_query"
     /\ ~NegatedTermMatches
     /\ OR \in Range(query_expr.operators))
        => (ret <=> \/ query_expr.terms = <<>>
                    \/ \E k \in DOMAIN query_expr.terms : PositiveTermMatches(k))

\* a query with an OR and an AND, one of whose positive terms matches and
\* another does not, has been evaluated
C19_Witness ==
    /\ call.op = "evaluate_query"
    /\ ~NegatedTermMatches
    /\ {AND, OR} \subseteq Range(query_expr.operators)
    /\ \E k \in DOMAIN query_expr.terms : PositiveTermMatches(k)
    /\ \E k \in DOMAIN query_expr.terms : ~PositiveTermMatches(k)

\* C20: when no negated term matches, evaluate_query returns True for a query
\* without positive terms; otherwise, without operators, if and only if some
\* positive term matches, and with operators that are all AND, if and only
\* if every positive term matches some label.
C20_AndOnly ==
    (call.op = "evaluate_query" /\ ~NegatedTermMatches) =>
        /\ query_expr.terms = <<>> => ret
        /\ (query_expr.terms # <<>> /\ query_expr.operators = <<>>) =>
               (ret <=> \E k \in DOMAIN query_expr.terms : PositiveTermMatches(k))
        /\ (query_expr.terms # <<>> /\ query_expr.operators # <<>>
                /\ Range(query_expr.operators) = {AND}) =>
               (ret <=> \A k \in DOMAIN query_expr.terms : PositiveTermMatches(k))

\* a query of two adjacent terms and an AND has been evaluated to True against
\* labels none of which contains both terms
C20_Witness ==
    /\ call.op = "evaluate_query"
    /\ Range(query_expr.operators) = {AND}
    /\ Len(query_expr.terms) = 2 /\ Len(query_expr.operators) = 1
    /\ _tokenize(_normalize_query(boolean_query, ReferenceOrder))[3] = AND
    /\ ret
    /\ \A i \in DOMAIN call.item_tags :
           \E k \in DOMAIN query_expr.terms :
               ~Contains(lower(call.item_tags[i]), lower(query_expr.terms[k]))

\* the tokens without their first / without their last token
WithoutFirst(tokens) == Tail(tokens)
WithoutLast(tokens) == SubSeq(tokens, 1, Len(tokens) - 1)

\* C21: a query whose first token is AND or OR, or whose last token is AND,
\* OR or NOT, parses to the expression of the same tokens without that
\* operator, and so evaluates exactly like them.
C21_BareOperatorDropped ==
    call.op = "evaluate_query" =>
        \A order \in OperatorOrders :
            LET tokens == _tokenize(_normalize_query(boolean_query, order)) IN
            (tokens # <<>> /\ query_expr = _parse_expression(tokens)) =>
                /\ Head(tokens) \in {AND, OR} =>
                       /\ query_expr = _parse_expression(WithoutFirst(tokens))
                       /\ ret = evaluate_query(_parse_expression(WithoutFirst(tokens)),
                                               call.item_tags)
                /\ tokens[Len(tokens)] \in {AND, OR, NOT} =>
                       /\ query_expr = _parse_expression(WithoutLast(tokens))
                       /\ ret = evaluate_query(_parse_expression(WithoutLast(tokens)),
                                               call.item_tags)

(***************************************************************************)
(* The tag frequency map: SpecTags.                                        *)
(***************************************************************************)
MaxTagInfos == 2

MaxCount == 2

MaxTop == 3

\* the sequences over S of length at most n
RECURSIVE SeqsUpTo(_, _)
SeqsUpTo(S, n) ==
    IF n = 0 THEN { <<>> }
    ELSE SeqsUpTo(S, n - 1) \cup {Append(q, e) : q \in SeqsUpTo(S, n - 1), e \in S}

TagNameSet == { <<"a">>, <<"b">>, <<"c">> }

\* the tag entries of the tag source: records with a count, a record without
\* one, a plain string and a record with an empty name
TagInfos ==
    {DictTag(t, Some(c)) : t \in TagNameSet, c \in 0..MaxCount}
        \cup {DictTag(<<"a">>, None), StrTag(<<"b">>), DictTag(<<>>, Some(MaxCount))}

Frequencies == 0..(MaxCount + 1)

InitTags ==
    /\ tags_data \in SeqsUpTo(TagInfos, MaxTagInfos)
    /\ boolean_query = <<>>
    /\ items_source = <<>>
    /\ preset_input = <<None, NoCriteria>>
    /\ Constructed
    /\ PageServed

NextTags ==
    \/ ProcessZoteroTags
    \/ \E min_freq \in Frequencies, max_freq \in {None} \cup {Some(m) : m \in Frequencies} :
           FilterByFrequency(min_freq, max_freq)
    \/ \E n \in (-MaxTop)..MaxTop : GetTopTags(n)
    \/ GetTagStatistics

SpecTags == InitTags /\ [][NextTags]_vars

\* the keys of a dict are distinct
IsDict(d) == \A i, j \in DOMAIN d : d[i][1] = d[j][1] => i = j

\* the statistics of a non-empty tag map: the totals, the average as the
\* fraction total_occurrences / total_tags, lying between minimum and maximum
StatisticsOfNonEmpty ==
    processed_tags # <<>> =>
        LET avg == Get(ret, "avg_frequency") IN
        /\ Get(ret, "total_tags") = Len(processed_tags)
        /\ Get(ret, "total_occurrences") = SumCounts(processed_tags)
        /\ avg[2] > 0
        /\ avg[1] * Get(ret, "total_tags") = Get(ret, "total_occurrences") * avg[2]
        /\ Get(ret, "min_frequency") * avg[2] <= avg[1]
        /\ avg[1] <= Get(ret, "max_frequency") * avg[2]
        /\ \A i \in DOMAIN processed_tags :
               /\ Get(ret, "min_frequency") <= processed_tags[i][2]
               /\ processed_tags[i][2] <= Get(ret, "max_frequency")

\* C16 as stated: on an empty tag map get_tag_statistics returns a record
\* that has the average frequency, as 0; on a non-empty map the totals and
\* the average are as in StatisticsOfNonEmpty.
C16_AverageReported ==
    call.op = "get_tag_statistics" =>
        /\ processed_tags = <<>> =>
               HasKey(ret, "avg_frequency") /\ Get(ret, "avg_frequency")[1] = 0
        /\ StatisticsOfNonEmpty

\* C16 amended: on an empty tag map get_tag_statistics returns the empty
\* dict, without an average frequency or any other field, and does not
\* raise; on a non-empty map the totals and the average are as stated.
C16_EmptyDictOnEmptyMap ==
    call.op = "get_tag_statistics" =>
        /\ processed_tags = <<>> => ret = <<>>
        /\ processed_tags # <<>> => Keys(ret) = {"total_tags", "total_occurrences",
               "avg_frequency", "max_frequency", "min_frequency", "unique_tags"}
        /\ StatisticsOfNonEmpty

\* the statistics of a map of two tags whose counts differ by an odd number,
\* so that the average is not an integer
C16_Witness ==
    /\ call.op = "get_tag_statistics"
    /\ Len(processed_tags) = 2
    /\ (processed_tags[1][2] + processed_tags[2][2]) % 2 = 1

\* C14: process_zotero_tags maps every non-empty tag name of the input, and
\* nothing else, to the count of the last entry that bears the name: numItems
\* for a record that has one, 1 for a record without and for a plain string;
\* the returned map is the one stored as processed_tags.
C14_LastWriteWins ==
    call.op = "process_zotero_tags" =>
        /\ ret = processed_tags
        /\ IsDict(ret)
        /\ Keys(ret) = {tags_data[i].tag : i \in DOMAIN tags_data} \ { <<>> }
        /\ \A t \in Keys(ret) :
               LET last == CHOOSE i \in DOMAIN tags_data :
                               /\ tags_data[i].tag = t
                               /\ \A j \in DOMAIN tags_data : tags_data[j].tag = t => j <= i
               IN  Get(ret, t) = IF tags_data[last].kind = "dict"
                                       /\ tags_data[last].numItems # None
                                 THEN tags_data[last].numItems[1]
                                 ELSE 1

\* a tag list from which a name occurs twice, with a count first and without
\* one last, has been processed
C14_Witness ==
    /\ call.op = "process_zotero_tags"
    /\ \E i, j \in DOMAIN tags_data :
           /\ i < j
           /\ tags_data[i].tag = tags_data[j].tag
           /\ tags_data[i].numItems \notin {None, Some(1)}
           /\ tags_data[j].numItems = None

\* C3: filter_by_frequency returns exactly the tags whose count lies within
\* the bounds, each with its count; with max_freq unset only min_freq applies.
C3_FilterExact ==
    call.op = "filter_by_frequency" =>
        /\ IsDict(ret)
        /\ Keys(ret) \subseteq Keys(processed_tags)
        /\ \A t \in Keys(processed_tags) :
               /\ HasKey(ret, t) <=>
                      /\ call.min_freq <= Get(processed_tags, t)
                      /\ (call.max_freq = None \/ Get(processed_tags, t) <= call.max_freq[1])
               /\ HasKey(ret, t) => Get(ret, t) = Get(processed_tags, t)

\* both bounds are set, min <= max, one tag is kept and another dropped
C3_Witness ==
    /\ call.op = "filter_by_frequency"
    /\ call.max_freq # None
    /\ call.min_freq <= call.max_freq[1]
    /\ ret # <<>>
    /\ Len(ret) < Len(processed_tags)
    /\ \E t \in Keys(ret) : Get(processed_tags, t) = call.min_freq

Min(a, b) == IF a < b THEN a ELSE b

\* the entries are in non-increasing order of count and no omitted tag has a
\* strictly higher count than a returned one
TopOrdered ==
    /\ IsDict(ret)
    /\ \A i \in DOMAIN ret : HasKey(processed_tags, ret[i][1])
                             /\ Get(processed_tags, ret[i][1]) = ret[i][2]
    /\ \A i, j \in DOMAIN ret : i < j => ret[i][2] >= ret[j][2]
    /\ \A t \in Keys(processed_tags) \ Keys(ret) :
           \A i \in DOMAIN ret : Get(processed_tags, t) <= ret[i][2]

\* C4 as stated: for every integer n, get_top_tags(n) returns at most
\* min(n, |M|) entries, in non-increasing order of count, omitting no tag of
\* a strictly higher count than a returned one.
C4_TopAtMostMin ==
    call.op = "get_top_tags" =>
        /\ Len(ret) <= Min(call.n, Len(processed_tags))
        /\ TopOrdered

\* C4 amended: for n >= 0 get_top_tags(n) returns exactly min(n, |M|) entries;
\* for n < 0 it returns max(|M| + n, 0) entries (all but the last |n| of the
\* sorted tags); for every n the entries are in non-increasing order of count
\* and no omitted tag has a strictly higher count than a returned one.
C4_TopNonNegative ==
    call.op = "get_top_tags" =>
        /\ call.n >= 0 => Len(ret) = Min(call.n, Len(processed_tags))
        /\ call.n < 0 => Len(ret) = (IF Len(processed_tags) + call.n > 0
                                     THEN Len(processed_tags) + call.n ELSE 0)
        /\ TopOrdered

\* a map whose tags are not in order of count is truncated to fewer tags
C4_Witness ==
    /\ call.op = "get_top_tags"
    /\ call.n > 0
    /\ call.n < Len(processed_tags)
    /\ \E i, j \in DOMAIN processed_tags : i < j /\ processed_tags[i][2] < processed_tags[j][2]

(***************************************************************************)
(* Tag co-occurrence: SpecItems.                                           *)
(***************************************************************************)
MaxItems == 2

MaxMinCooccurrence == 3

\* an item with a tag list; the other metadata of the item is not read by
\* the operations of this specification
ItemWithTags(infos) == [data |-> Some([tags |-> Some(infos)])]

TagA == DictTag(<<"a">>, None)

TagB == DictTag(<<"b">>, None)

TagC == DictTag(<<"c">>, None)

\* the items of the item source: tag lists with and without repeated tags,
\* with a plain-string tag and an empty tag name, and items without 'tags'
\* or without 'data'
Items ==
    {ItemWithTags(infos) : infos \in
        { <<>>, <<TagA>>, <<TagA, TagB>>, <<TagB, TagA>>, <<TagB, TagC>>, <<TagA, TagA>>,
          <<TagA, TagB, TagA>>, <<TagA, TagB, TagB>>, <<TagC, TagA, TagB>>,
          <<StrTag(<<"c">>), DictTag(<<>>, None), TagA>> }}
    \cup { [data |-> None], [data |-> Some([tags |-> None])] }

InitItems ==
    /\ items_source \in SeqsUpTo(Items, MaxItems)
    /\ boolean_query = <<>>
    /\ tags_data = <<>>
    /\ preset_input = <<None, NoCriteria>>
    /\ Constructed
    /\ PageServed

NextItems ==
    \/ ProcessItemsTags
    \/ ProcessItemsWithMetadata
    \/ \E min_cooccurrence \in 0..MaxMinCooccurrence :
           GetTagCooccurrenceMatrix(min_cooccurrence)

SpecItems == InitItems /\ [][NextItems]_vars

\* matrix[a][b] exists
HasEntry(matrix, a, b) == HasKey(matrix, a) /\ HasKey(Get(matrix, a), b)

Entry(matrix, a, b) == Get(Get(matrix, a), b)

\* the tag names that occur on the items
ItemTagSet == UNION {Range(ItemTagNames(items_data[i])) : i \in DOMAIN items_data}

\* C5: whenever the returned matrix has matrix[a][b] it has matrix[b][a], and
\* the two counts are equal.
C5_Symmetric ==
    call.op = "get_tag_cooccurrence_matrix" =>
        \A a \in Keys(ret) : \A b \in Keys(Get(ret, a)) :
            HasEntry(ret, b, a) /\ Entry(ret, b, a) = Entry(ret, a, b)

\* a matrix with an entry for two distinct tags has been returned
C5_Witness ==
    /\ call.op = "get_tag_cooccurrence_matrix"
    /\ \E a \in Keys(ret) : \E b \in Keys(Get(ret, a)) : a # b /\ Entry(ret, a, b) >= 2

\* the number of items on which both a and b appear
ItemsWithBoth(a, b) ==
    Cardinality({i \in DOMAIN items_data :
                    {a, b} \subseteq Range(ItemTagNames(items_data[i]))})

\* C6: for every two distinct tags a and b, the count recorded for (a, b)
\* before pruning is the number of items on which both a and b appear.
C6_CountsItems ==
    call.op = "get_tag_cooccurrence_matrix" =>
        \A a, b \in ItemTagSet : a # b =>
            (IF HasEntry(call.cooccurrence, a, b) THEN Entry(call.cooccurrence, a, b) ELSE 0)
                = ItemsWithBoth(a, b)

\* the number of items of the item source that bear the tag
ItemsBearing(tag) ==
    Cardinality({i \in DOMAIN items_source :
                    HasTags(items_source[i])
                        /\ \E k \in DOMAIN items_source[i].data[1].tags[1] :
                               items_source[i].data[1].tags[1][k].tag = tag})

\* C13: the map returned by process_items_tags and by
\* process_items_with_metadata gives each of its tags the number of items
\* that bear the tag, and holds every non-empty tag that some item bears.
C13_CountsItems ==
    call.op \in {"process_items_tags", "process_items_with_metadata"} =>
        /\ \A k \in DOMAIN ret : ret[k][2] = ItemsBearing(ret[k][1])
        /\ \A t \in TagNameSet : ItemsBearing(t) > 0 => HasKey(ret, t)

\* C7: the returned matrix has the entry (a, b), with the recorded count, if
\* and only if the count recorded for (a, b) before pruning is at least
\* min_cooccurrence; no key of the returned matrix has an empty inner map.
C7_Pruned ==
    call.op = "get_tag_cooccurrence_matrix" =>
        /\ IsDict(ret)
        /\ \A k \in DOMAIN ret : ret[k][2] # <<>> /\ IsDict(ret[k][2])
        /\ \A a \in Keys(ret) : \A b \in Keys(Get(ret, a)) : HasEntry(call.cooccurrence, a, b)
        /\ \A a \in Keys(call.cooccurrence) : \A b \in Keys(Get(call.cooccurrence, a)) :
               /\ HasEntry(ret, a, b) <=> Entry(call.cooccurrence, a, b) >= call.min_cooccurrence
               /\ HasEntry(ret, a, b) => Entry(ret, a, b) = Entry(call.cooccurrence, a, b)

\* one tag keeps a partner while another tag loses all of its partners
C7_Witness ==
    /\ call.op = "get_tag_cooccurrence_matrix"
    /\ ret # <<>>
    /\ \E a \in Keys(call.cooccurrence) : ~HasKey(ret, a)
    /\ \E a \in Keys(ret) : Len(Get(ret, a)) < Len(Get(call.cooccurrence, a))

\* C23: no tag of the returned matrix is recorded as co-occurring with itself.
C23_NoSelfCooccurrence ==
    call.op = "get_tag_cooccurrence_matrix" =>
        \A a \in Keys(ret) : ~HasKey(Get(ret, a), a)

(***************************************************************************)
(* Hierarchical tags: SpecHier.                                            *)
(* A tag name is the concatenation of at most MaxTagFragments fragments.   *)
(***************************************************************************)
MaxTagFragments == 3

TagFragments == { <<"a">>, <<"b">>, <<"-","b">>, <<"-">>, <<" ">> }

RECURSIVE TagConcatenations(_)
TagConcatenations(n) ==
    IF n = 0 THEN { <<>> }
    ELSE TagConcatenations(n - 1)
             \cup {t \o f : t \in TagConcatenations(n - 1), f \in TagFragments}

\* one tag, or that tag followed by the tag "a-b"
HierTagsData ==
    { <<StrTag(t)>> : t \in TagConcatenations(MaxTagFragments) }
        \cup { <<StrTag(t), StrTag(<<"a","-","b">>)>> : t \in TagConcatenations(MaxTagFragments) }

Separators == { <<"-">>, <<"-","-">> }

InitHier ==
    /\ tags_data \in HierTagsData
    /\ boolean_query = <<>>
    /\ items_source = <<>>
    /\ preset_input = <<None, NoCriteria>>
    /\ Constructed
    /\ PageServed

NextHier ==
    \/ ProcessZoteroTags
    \/ \E separator \in Separators : ParseHierarchicalTags(separator)

SpecHier == InitHier /\ [][NextHier]_vars

\* the first i of the separator-delimited segments of a tag, joined again
Prefix(tag, separator, i) == join(separator, SubSeq(split(tag, separator), 1, i))

\* the tag is made of at least two non-empty segments
Segmented(tag, separator) ==
    /\ Len(split(tag, separator)) >= 2
    /\ \A k \in DOMAIN split(tag, separator) : split(tag, separator)[k] # <<>>

Occurrences(seq, e) == Cardinality({k \in DOMAIN seq : seq[k] = e})

\* every parent and child returned comes from a tag that contains the separator
FromSeparatedTags ==
    \A p \in DOMAIN ret : \A c \in DOMAIN ret[p][2] :
        \E t \in Keys(processed_tags) :
            /\ Contains(t, call.separator)
            /\ \E i \in 1..(Len(split(t, call.separator)) - 1) :
                   /\ ret[p][1] = strip(Prefix(t, call.separator, i))
                   /\ ret[p][2][c] = strip(Prefix(t, call.separator, i + 1))

\* C8 as stated: for every tag of k >= 2 non-empty segments, each prefix of i
\* segments (1 <= i < k) is a parent key whose child list contains the prefix
\* of i + 1 segments exactly once; tags without the separator add nothing.
C8_PrefixParents ==
    call.op = "parse_hierarchical_tags" =>
        /\ IsDict(ret)
        /\ \A t \in Keys(processed_tags) : Segmented(t, call.separator) =>
               \A i \in 1..(Len(split(t, call.separator)) - 1) :
                   /\ HasKey(ret, Prefix(t, call.separator, i))
                   /\ Occurrences(Get(ret, Prefix(t, call.separator, i)),
                                  Prefix(t, call.separator, i + 1)) = 1
        /\ FromSeparatedTags

\* C8 amended: parent and child are the prefixes with leading and trailing
\* whitespace stripped, and a prefix that is all whitespace is no parent.
C8_StrippedPrefixParents ==
    call.op = "parse_hierarchical_tags" =>
        /\ IsDict(ret)
        /\ \A t \in Keys(processed_tags) : Segmented(t, call.separator) =>
               \A i \in 1..(Len(split(t, call.separator)) - 1) :
                   strip(Prefix(t, call.separator, i)) # <<>> =>
                       /\ HasKey(ret, strip(Prefix(t, call.separator, i)))
                       /\ Occurrences(Get(ret, strip(Prefix(t, call.separator, i))),
                                      strip(Prefix(t, call.separator, i + 1))) = 1
        /\ \A p \in DOMAIN ret : ret[p][1] # <<>> /\ ret[p][2] # <<>>
        /\ FromSeparatedTags

\* two tags of non-empty segments give the same parent and child, one of them
\* only once its whitespace is stripped
C8_Witness ==
    /\ call.op = "parse_hierarchical_tags"
    /\ Len(processed_tags) = 2
    /\ \A t \in Keys(processed_tags) : Segmented(t, call.separator)
    /\ \E t \in Keys(processed_tags) :
           strip(Prefix(t, call.separator, 1)) # Prefix(t, call.separator, 1)
    /\ Len(ret) = 1

(***************************************************************************)
(* Filter presets: SpecPreset.                                             *)
(***************************************************************************)
\* a value for each field of the FilterCriteria of the specification: the
\* fields of the dataclass and the boolean query string
SampleCriteria ==
    [search_terms |-> << <<"x">> >>,
     boolean_query |-> <<"x"," ","O","R"," ","y">>,
     item_types |-> << <<"b","o","o","k">> >>,
     start_year |-> 1999,
     end_year |-> 2005,
     creators |-> << <<"k">> >>,
     languages |-> << <<"e","n">> >>,
     collections |-> << <<"C","1">> >>,
     min_frequency |-> 2,
     max_frequency |-> 9,
     regex_pattern |-> <<"^","x">>,
     exclude_patterns |-> << <<"y","$">> >>]

\* every field unset or set
CriteriaInputs ==
    {[f \in DOMAIN SampleCriteria |-> IF f \in unset THEN None ELSE Some(SampleCriteria[f])] :
        unset \in SUBSET (DOMAIN SampleCriteria)}

PresetNames == { <<"p">>, <<>> }

Timestamps == {"2024-01-01T00:00:00", "2024-01-02T00:00:00"}

InitPreset ==
    /\ preset_input \in PresetNames \X CriteriaInputs
    /\ boolean_query = <<>>
    /\ tags_data = <<>>
    /\ items_source = <<>>
    /\ Constructed
    /\ PageServed

NextPreset ==
    \/ \E now \in Timestamps : CreateFilterPreset(now)
    \/ LoadFilterPreset

SpecPreset == InitPreset /\ [][NextPreset]_vars

NoneValue == [type |-> "NoneType"]

IntValue == [type |-> "int"]

ListValue == [type |-> "list"]

BytesValue(chars) == [type |-> "bytes", value |-> chars]

AttributeError == [type |-> "AttributeError"]

TypeError == [type |-> "TypeError"]

\* of the values above only bytes has upper() and lower()
HasCaseMethods(value) == value.type = "bytes"

\* parse_query on a value that is not a str: query.upper() raises
\* AttributeError, or returns bytes, on which re.sub with the str pattern of
\* the first operator raises TypeError
parse_query_non_string(query) ==
    IF HasCaseMethods(query) THEN TypeError ELSE AttributeError

\* the except branch of get_tags_by_boolean_query on a value that is not a
\* str: query.lower() raises AttributeError, or returns bytes, and then
\* 'and' in query_lower raises TypeError for the first tag of the loop; with
\* no tag the loop body never runs and the empty matching_tags is returned
FallbackSearchNonString(tags, query) ==
    IF ~HasCaseMethods(query) THEN [raised |-> Some(AttributeError), matching_tags |-> None]
    ELSE IF tags # <<>> THEN [raised |-> Some(TypeError), matching_tags |-> None]
    ELSE [raised |-> None, matching_tags |-> <<>>]

\* BooleanQueryParser().parse_query(boolean_query), boolean_query not a str
ParseQueryNonString ==
    /\ query_expr' = parse_query_non_string(boolean_query)
    /\ ret' = query_expr'
    /\ call' = [op |-> "parse_query"]
    /\ UNCHANGED <<session, boolean_query, tags_data, items_source, preset_input, processed_tags,
                   items_data, metadata_cache>>

\* TagProcessor.get_tags_by_boolean_query(boolean_query), boolean_query not a
\* str: parse_query raises inside the try, so the except branch runs
GetTagsByBooleanQueryNonString ==
    /\ LET r == FallbackSearchNonString(processed_tags, boolean_query) IN
          /\ ret' = r.matching_tags
          /\ call' = [op |-> "get_tags_by_boolean_query", excepted |-> TRUE,
                      raised |-> r.raised]
    /\ UNCHANGED <<session, boolean_query, tags_data, items_source, preset_input, processed_tags,
                   items_data, metadata_cache, query_expr>>

NonStrings ==
    { NoneValue, IntValue, ListValue, BytesValue(<<"x">>),
      BytesValue(<<"a"," ","a","n","d"," ","b">>) }

InitNonString ==
    /\ boolean_query \in NonStrings
    /\ tags_data \in SeqsUpTo(TagInfos, MaxTagInfos)
    /\ items_source = <<>>
    /\ preset_input = <<None, NoCriteria>>
    /\ Constructed
    /\ PageServed

NextNonString ==
    \/ ProcessZoteroTags
    \/ ParseQueryNonString
    \/ GetTagsByBooleanQueryNonString

SpecNonString == InitNonString /\ [][NextNonString]_vars

\* C11: for a query that is not a str, parse_query raises an error, and
\* get_tags_by_boolean_query raises one too, returning no tag map, with
\* processed_tags as the last ingestion left it.
C11_NonStringRejected ==
    /\ call.op = "parse_query" => ret \in {AttributeError, TypeError}
    /\ call.op = "get_tags_by_boolean_query" =>
           /\ call.raised # None
           /\ processed_tags \in {<<>>, process_zotero_tags(tags_data)}

(***************************************************************************)
(* Item matching against the criteria: SpecMatch.                          *)
(***************************************************************************)
ItemData(itemType, date, creators, language, collections, tags) ==
    [data |-> Some([itemType |-> itemType, date |-> date, creators |-> creators,
                    language |-> language, collections |-> collections,
                    tags |-> tags])]

Book == <<"b","o","o","k">>

Article == <<"a","r","t","i","c","l","e">>

\* the items of the library: a book of 2001 in collection C1, an article of
\* 1999 in collection C2, a book without any other metadata, an item without
\* 'data', a book whose date holds no year between word boundaries, and a
\* book of 2001 in collection C2 whose tag is a plain string
Library ==
    << ItemData(Some(Book), Some(<<"2","0","0","1">>),
                Some(<< [firstName |-> <<"A","n">>, lastName |-> <<"K","a","y">>] >>),
                Some(<<"e","n">>), Some(<< <<"C","1">> >>), Some(<<TagA>>)),
       ItemData(Some(Article), Some(<<"M","a","y"," ","1","9","9","9">>),
                Some(<< [firstName |-> <<>>, lastName |-> <<"L","e","e">>] >>),
                Some(<<"d","e">>), Some(<< <<"C","2">> >>), Some(<<TagA, TagB>>)),
       ItemData(Some(Book), None, None, None, None, Some(<<TagB>>)),
       [data |-> None],
       ItemData(Some(Book), Some(<<"x","2","0","0","1">>), Some(<<>>),
                Some(<<"e","n">>), Some(<< <<"C","1">>, <<"C","2">> >>), Some(<<TagC>>)),
       ItemData(Some(Book), Some(<<"2","0","0","1">>), None,
                Some(<<"e","n">>), Some(<< <<"C","2">> >>), Some(<<StrTag(<<"b">>)>>)) >>

LibraryItems == Range(Library)

\* one or two items of the library
ItemLists == {<<i>> : i \in LibraryItems} \cup {<<i, j>> : i, j \in LibraryItems}

\* the criteria: each field unset, or set to a value some item of the library
\* satisfies and some item does not; an empty list and a zero year as well
MatchCriteria ==
    {[NoCriteria EXCEPT !.item_types = it, !.start_year = sy, !.end_year = ey,
                        !.creators = cr, !.languages = la, !.collections = co,
                        !.search_terms = st, !.regex_pattern = re,
                        !.exclude_patterns = ex] :
        it \in {None, Some(<<Book>>), Some(<<>>)},
        sy \in {None, Some(2000), Some(0)},
        ey \in {None, Some(2005)},
        cr \in {None, Some(<< <<"K","A","Y">> >>)},
        la \in {None, Some(<< <<"e","n">> >>)},
        co \in {None, Some(<< <<"C","2">> >>)},
        st \in {None, Some(<< <<"A">> >>)},
        re \in {None, Some(<<"b">>)},
        ex \in {None, Some(<< <<"c">> >>)}}

InitMatch ==
    /\ items_source \in ItemLists
    /\ preset_input \in {None} \X MatchCriteria
    /\ boolean_query = <<>>
    /\ tags_data = <<>>
    /\ Constructed
    /\ PageServed

NextMatch == ApplyFilters

SpecMatch == InitMatch /\ [][NextMatch]_vars

\* every criterion that is set (present and neither empty nor zero) holds for
\* the item
EveryCriterionHolds(item, criteria) ==
    LET data == item.data[1]
        year == IF data.date = None THEN None ELSE re_search_year(data.date[1])
        labels == ItemTagNames(item)
    IN  /\ TruthyList(criteria.item_types) =>
               data.itemType # None /\ data.itemType[1] \in Range(criteria.item_types[1])
        /\ TruthyNumber(criteria.start_year) \/ TruthyNumber(criteria.end_year) => year # None
        /\ TruthyNumber(criteria.start_year) /\ year # None => year[1] >= criteria.start_year[1]
        /\ TruthyNumber(criteria.end_year) /\ year # None => year[1] <= criteria.end_year[1]
        /\ TruthyList(criteria.creators) =>
               /\ data.creators # None
               /\ \E k \in DOMAIN criteria.creators[1] : \E c \in DOMAIN data.creators[1] :
                      Contains(lower(CreatorName(data.creators[1][c])),
                               lower(criteria.creators[1][k]))
        /\ TruthyList(criteria.languages) =>
               data.language # None /\ data.language[1] \in Range(criteria.languages[1])
        /\ TruthyList(criteria.collections) =>
               /\ data.collections # None
               /\ Range(data.collections[1]) \cap Range(criteria.collections[1]) # {}
        /\ TruthyList(criteria.search_terms) =>
               \E k \in DOMAIN criteria.search_terms[1] : \E t \in DOMAIN labels :
                   Contains(lower(labels[t]), lower(criteria.search_terms[1][k]))
        /\ TruthyList(criteria.regex_pattern) =>
               \E t \in DOMAIN labels :
                   Contains(lower(labels[t]), lower(criteria.regex_pattern[1]))
        /\ TruthyList(criteria.exclude_patterns) =>
               \A k \in DOMAIN criteria.exclude_patterns[1] : \A t \in DOMAIN labels :
                   ~Contains(lower(labels[t]), lower(criteria.exclude_patterns[1][k]))

\* C15: apply_filters keeps an item with data if and only if every criterion
\* that is set holds for it (item type, year range, creator, language,
\* collection membership, and the tag criteria); with every criterion unset
\* every item with data is kept.
C15_Conjunction ==
    call.op = "apply_filters" =>
        \A i \in DOMAIN items_source :
            IF items_source[i].data = None
            THEN items_source[i] \notin Range(ret)
            ELSE items_source[i] \in Range(ret)
                     <=> EveryCriterionHolds(items_source[i], preset_input[2])

(***************************************************************************)
(* The two metadata matchers: SpecMetadata.                                *)
(***************************************************************************)
\* the items of the library, a book whose date is the empty string and a book
\* whose date holds two years, the first of them 1999
MetadataItems ==
    LibraryItems
        \cup { ItemData(Some(Book), Some(<<>>), Some(<<>>), Some(<<"e","n">>), None,
                        Some(<<TagA>>)),
               ItemData(Some(Book), Some(<<"1","9","9","9","/","2","0","0","1">>),
                        Some(<< [firstName |-> <<"A","n">>, lastName |-> <<"K","a","y">>] >>),
                        Some(<<"e","n">>), None, Some(<<TagB>>)) }

\* one or two of these items
MetadataItemLists == {<<i>> : i \in MetadataItems} \cup {<<i, j>> : i, j \in MetadataItems}

\* item types, year bounds, creators and languages, each unset or set; a zero
\* year as well
MetadataCriteria ==
    {[NoCriteria EXCEPT !.item_types = it, !.start_year = sy, !.end_year = ey,
                        !.creators = cr, !.languages = la] :
        it \in {None, Some(<<Book>>)},
        sy \in {None, Some(2000), Some(0)},
        ey \in {None, Some(2005), Some(2000)},
        cr \in {None, Some(<< <<"K","A","Y">> >>)},
        la \in {None, Some(<< <<"e","n">> >>)}}

InitMetadata ==
    /\ items_source \in MetadataItemLists
    /\ preset_input \in {None} \X MetadataCriteria
    /\ boolean_query = <<>>
    /\ tags_data = <<>>
    /\ Constructed
    /\ PageServed

NextMetadata ==
    \/ ProcessItemsWithMetadata
    \/ ApplyFilters
    \/ FilterTagsByMetadata

SpecMetadata == InitMetadata /\ [][NextMetadata]_vars

\* the year of an item with data: the first 19xx/20xx match of its date
\* string, None without a date or without a match
YearOf(item) ==
    IF TruthyList(item.data[1].date) THEN re_search_year(item.data[1].date[1]) ELSE None

\* (start unset or start <= year) and (end unset or year <= end), for an item
\* that has a year; unset is None or 0
InYearRange(item, criteria) ==
    /\ YearOf(item) # None
    /\ TruthyNumber(criteria.start_year) => criteria.start_year[1] <= YearOf(item)[1]
    /\ TruthyNumber(criteria.end_year) => YearOf(item)[1] <= criteria.end_year[1]

\* the i-th item was selected by the last call, a call of one of the matchers
SelectedByCall(i) ==
    IF call.op = "apply_filters" THEN items_source[i] \in Range(ret)
    ELSE (i - 1) \in call.matching[1]

\* a matcher has run over the item list
MatcherRan ==
    \/ call.op = "apply_filters"
    \/ call.op = "filter_tags_by_metadata" /\ call.matching # None

\* C22: with a year range set, an item selected by either matcher has a year
\* within the bounds, both inclusive and each optional, so an item with no
\* date or no resolvable year is not selected; and with nothing but the year
\* range set, every item with data whose year is within the bounds is selected.
C22_YearRange ==
    LET criteria == preset_input[2] IN
    (MatcherRan /\ (TruthyNumber(criteria.start_year) \/ TruthyNumber(criteria.end_year))) =>
        \A i \in DOMAIN items_source :
            items_source[i].data # None =>
                /\ SelectedByCall(i) => InYearRange(items_source[i], criteria)
                /\ (/\ ~TruthyList(criteria.item_types)
                    /\ ~TruthyList(criteria.creators)
                    /\ ~TruthyList(criteria.languages)
                    /\ InYearRange(items_source[i], criteria)) => SelectedByCall(i)

\* C25: the items filter_tags_by_metadata counts as matching are exactly the
\* items apply_filters selects from the same list under the same item types,
\* year bounds, creators and languages.
C25_MatchersAgree ==
    (call.op = "filter_tags_by_metadata" /\ call.matching # None) =>
        \A i \in DOMAIN items_data :
            (i - 1) \in call.matching[1]
                <=> items_data[i] \in Range(apply_filters(items_data, preset_input[2]))

(***************************************************************************)
(* The filter pipeline: SpecPipeline.                                      *)
(***************************************************************************)
PipelineTagsData ==
    { <<>>,
      << DictTag(<<"a">>, Some(2)), DictTag(<<"b">>, Some(1)),
         DictTag(<<"a","b">>, Some(3)), DictTag(<<"c">>, Some(2)),
         DictTag(<<"a","c">>, Some(0)) >> }

PipelineQueries == { <<>>, <<"a"," ","O","R"," ","c">>, <<" ","N","o","t"," ","a">> }

SearchTerms == { <<>>, <<"B">> }

PipelineLibraries ==
    { <<>>, <<Library[1], Library[2]>>, <<Library[3], Library[5]>>,
      <<Library[1], Library[6]>> }

\* the values of the form: each input empty or filled in; a collection list
\* may hold the "disabled" placeholder of the dropdown
Forms ==
    {[NoForm EXCEPT !.search_term = st, !.min_freq = fr[1], !.max_freq = fr[2],
                    !.max_tags = fr[3], !.item_types = it, !.languages = la,
                    !.start_year = yr[1], !.end_year = yr[2], !.creator_filter = cf,
                    !.collections = co] :
        st \in SearchTerms,
        fr \in {<<None, None, None>>, <<Some(2), None, Some(1)>>, <<Some(0), Some(2), Some(3)>>,
                <<None, Some(2), Some(1)>>},
        it \in {<<>>, <<Book>>},
        la \in {<<>>, << <<"e","n">> >>},
        yr \in {<<None, None>>, <<Some(2000), Some(2005)>>, <<None, Some(2000)>>},
        cf \in {<<>>, <<"A">>},
        co \in {<<>>, << <<"C","2">> >>, <<Disabled, <<"C","1">> >>}}

InitPipeline ==
    /\ tags_data \in PipelineTagsData
    /\ boolean_query \in PipelineQueries
    /\ items_source \in PipelineLibraries
    /\ form \in Forms
    /\ filter_presets_data = None
    /\ preferences = <<>>
    /\ target_tag = <<>>
    /\ requests = NoRequests
    /\ write_order = <<>>
    /\ preset_input = <<None, NoCriteria>>
    /\ Constructed

NextPipeline == UpdateVisualizationAdvanced

SpecPipeline == InitPipeline /\ [][NextPipeline]_vars

\* C12: with a non-empty boolean query, the filtered tag map is the one the
\* same run returns for any other search term, the empty one included.
C12_SearchTermIgnored ==
    (call.op = "update_visualization_advanced" /\ boolean_query # <<>>) =>
        \A st \in SearchTerms :
            ret = update_visualization_advanced(
                      tags_data, [form EXCEPT !.search_term = st], boolean_query,
                      parse_query(boolean_query, ReferenceOrder), items_source, call.lookup)

\* a run with a boolean query and a search term has returned a tag that does
\* not contain the search term
C12_Witness ==
    /\ call.op = "update_visualization_advanced"
    /\ boolean_query # <<>>
    /\ form.search_term # <<>>
    /\ \E k \in DOMAIN ret : ~Contains(lower(ret[k][1]), lower(form.search_term))

\* the item satisfies every metadata criterion of the form that is set
SatisfiesForm(item, f) ==
    LET data == DataOf(item)
        year == IF data.date = None THEN None ELSE re_search_year(data.date[1])
    IN  /\ f.item_types # <<>> =>
               data.itemType # None /\ data.itemType[1] \in Range(f.item_types)
        /\ f.languages # <<>> =>
               data.language # None /\ data.language[1] \in Range(f.languages)
        /\ f.start_year # None => year # None /\ year[1] >= f.start_year[1]
        /\ f.end_year # None => year # None /\ year[1] <= f.end_year[1]
        /\ f.collections # <<>> =>
               /\ data.collections # None
               /\ Range(data.collections[1]) \cap Range(f.collections) # {}

\* C18: when an item type, a language, a year bound or a collection is set,
\* every tag of the result is borne by an item of the library that satisfies
\* those criteria, whatever the outcome of the lookups; so the result is
\* empty when no item satisfies them.
C18_MetadataIntersection ==
    (/\ call.op = "update_visualization_advanced"
     /\ \/ form.item_types # <<>> \/ form.languages # <<>> \/ form.collections # <<>>
        \/ form.start_year # None \/ form.end_year # None)
        => \A k \in DOMAIN ret : \E i \in DOMAIN items_source :
               /\ ret[k][1] \in Range(ItemTagNames(items_source[i]))
               /\ SatisfiesForm(items_source[i], form)

\* what the same run returns when the max-tag bound is left unset
WithoutMaxTags ==
    update_visualization_advanced(tags_data, [form EXCEPT !.max_tags = None], boolean_query,
                                  parse_query(boolean_query, ReferenceOrder), items_source,
                                  call.lookup)

\* the tags selected by the search term or the boolean query, and those of
\* them within the frequency bounds
Selected ==
    SearchOrQuery(process_zotero_tags(tags_data), form.search_term, boolean_query,
                  parse_query(boolean_query, ReferenceOrder))

WithinFrequency ==
    {e \in Range(Selected) :
        /\ e[2] >= (IF TruthyNumber(form.min_freq) THEN form.min_freq[1] ELSE 1)
        /\ form.max_freq # None => e[2] <= form.max_freq[1]}

\* C24: with a max-tag bound n the returned map holds n of the tags that pass
\* every other filter (all of them when there are fewer), none of them less
\* frequent than a tag left out; every returned tag was selected by the text
\* or boolean step and is within the frequency bounds, so an empty selection
\* or an empty frequency stage gives an empty map.
C24_TruncatesLast ==
    (call.op = "update_visualization_advanced" /\ ret # None) =>
        /\ IsDict(ret)
        /\ Range(ret) \subseteq WithinFrequency
        /\ WithinFrequency = {} => ret = <<>>
        /\ WithoutMaxTags = <<>> => ret = <<>>
        /\ TruthyNumber(form.max_tags) =>
               /\ Range(ret) \subseteq Range(WithoutMaxTags)
               /\ Len(ret) = Min(form.max_tags[1], Len(WithoutMaxTags))
               /\ \A kept \in Range(ret) : \A left \in Range(WithoutMaxTags) \ Range(ret) :
                      kept[2] >= left[2]

\* a run with bound 1 has returned one of several tags that pass the other
\* filters, and it is not the most frequent tag of the tags data, which a
\* filter removed
C24_Witness ==
    /\ call.op = "update_visualization_advanced"
    /\ ret # None /\ ret # <<>>
    /\ TruthyNumber(form.max_tags)
    /\ Len(WithoutMaxTags) > form.max_tags[1]
    /\ Range(ret) \cap Range(get_top_tags(process_zotero_tags(tags_data), form.max_tags[1])) = {}

\* C29: every entry of the returned map is an entry of the map that
\* process_zotero_tags made of the tags data, name and count, and its count
\* is at least 1 when the minimum frequency is unset or 0.
C29_OnlyRemoves ==
    (call.op = "update_visualization_advanced" /\ ret # None) =>
        /\ IsDict(ret)
        /\ Range(ret) \subseteq Range(process_zotero_tags(tags_data))
        /\ ~TruthyNumber(form.min_freq) => \A e \in Range(ret) : e[2] >= 1

\* a run with the minimum frequency 0 over tags data with a tag of count 0
\* has returned some of the other tags
C29_Witness ==
    /\ call.op = "update_visualization_advanced"
    /\ form.min_freq = Some(0)
    /\ \E e \in Range(process_zotero_tags(tags_data)) : e[2] = 0
    /\ ret # None /\ ret # <<>>
    /\ Len(ret) < Len(process_zotero_tags(tags_data)) - 1

(***************************************************************************)
(* Saving presets: SpecPresetStore.                                        *)
(* At most MaxPresets presets are saved from one page.                     *)
(***************************************************************************)
MaxPresets == 2

PresetForms ==
    { NoForm,
      [NoForm EXCEPT !.search_term = <<"x">>, !.min_freq = Some(2)],
      [NoForm EXCEPT !.item_types = <<Book, Article>>, !.end_year = Some(2005)] }

SavedTagsData == { None, <<StrTag(<<"a">>)>> }

InitPresetStore ==
    /\ boolean_query = <<>>
    /\ tags_data = None
    /\ items_source = <<>>
    /\ preset_input = <<None, NoCriteria>>
    /\ Constructed
    /\ PageServed

NextPresetStore ==
    \/ \E now \in Timestamps :
           Len(filter_presets_data) < MaxPresets /\ ManageFilterPresets(now)
    \/ \E data \in SavedTagsData : InitializeFilterPresets(data)
    \/ ServePage
    \/ \E f \in PresetForms, query \in {<<>>, <<"a"," ","O","R"," ","c">>} : FillForm(f, query)

SpecPresetStore == InitPresetStore /\ [][NextPresetStore]_vars

\* C17: after a save, the list stored under "filter_presets" is the list that
\* was stored before the save, in the same order, followed by one new preset.
C17_SaveKeepsPersisted ==
    call.op = "manage_filter_presets" =>
        /\ Len(preferences) = Len(call.persisted) + 1
        /\ SubSeq(preferences, 1, Len(call.persisted)) = call.persisted

(***************************************************************************)
(* Two pages saving presets at once: SpecConcurrentSave.                   *)
(* Every page saves at most MaxPresets presets.                            *)
(***************************************************************************)
ConcurrentForms == { NoForm, [NoForm EXCEPT !.search_term = <<"x">>, !.min_freq = Some(2)] }

InitConcurrentSave ==
    /\ boolean_query = <<>>
    /\ tags_data = None
    /\ items_source = <<>>
    /\ preset_input = <<None, NoCriteria>>
    /\ Constructed
    /\ PageServed

NextConcurrentSave ==
    \E c \in Callers :
        \/ \E f \in ConcurrentForms :
               Len(requests[c].store) < MaxPresets /\ ClickSave(c, f, <<>>)
        \/ \E now \in Timestamps : SavePreference(c, now)
        \/ ReturnPresets(c)

SpecConcurrentSave == InitConcurrentSave /\ [][NextConcurrentSave]_vars

\* pages c and d both read the list that the other read, and both have saved
\* since, d last
RacedAndSaved(c, d) ==
    /\ c # d
    /\ requests[c].pc = "saved" /\ requests[d].pc = "saved"
    /\ WithoutLast(requests[c].existing_presets) = WithoutLast(requests[d].existing_presets)
    /\ write_order[Len(write_order)] = d

\* C26: when two pages read the same preset list and both save, the stored
\* value is exactly the list of the later writer: the list both read followed
\* by the later writer's preset and nothing else.
C26_LastWriteWins ==
    \A c, d \in Callers :
        RacedAndSaved(c, d) =>
            /\ preferences = requests[d].existing_presets
            /\ Len(preferences) = Len(WithoutLast(requests[c].existing_presets)) + 1

\* two pages that read the same non-empty list have both saved, each a preset
\* of its own, and the earlier writer's preset is not in the stored list
C26_Witness ==
    \E c, d \in Callers :
        /\ RacedAndSaved(c, d)
        /\ WithoutLast(requests[c].existing_presets) # <<>>
        /\ requests[c].existing_presets # requests[d].existing_presets
        /\ requests[c].existing_presets[Len(requests[c].existing_presets)]
               \notin Range(preferences)

(***************************************************************************)
(* Saving a preset and selecting it again: SpecPresetLoad.                 *)
(***************************************************************************)
\* a form with every input filled in
FullForm ==
    [search_term |-> <<"x">>, min_freq |-> Some(2), max_freq |-> Some(3),
     max_tags |-> Some(1), item_types |-> <<Book>>, start_year |-> Some(2000),
     end_year |-> Some(2005), creator_filter |-> <<"K","a","y">>,
     languages |-> << <<"e","n">> >>, collections |-> << <<"C","1">>, Disabled >>]

\* the empty form, the full form and a form with two item types and an end year
PresetLoadForms ==
    { NoForm, FullForm,
      [NoForm EXCEPT !.item_types = <<Book, Article>>, !.end_year = Some(2005)] }

PresetLoadQueries == {<<>>, <<"a"," ","O","R"," ","c">>}

PresetLoadTimestamps == {"2024-01-01T00:00:00"}

InitPresetLoad == InitPresetStore

NextPresetLoad ==
    \/ \E now \in PresetLoadTimestamps :
           Len(filter_presets_data) < MaxPresets /\ ManageFilterPresets(now)
    \/ \E f \in PresetLoadForms, query \in PresetLoadQueries : FillForm(f, query)
    \/ \E preset_index \in {None} \cup {Some(i) : i \in 0..MaxPresets} :
           SelectPreset(preset_index)

SpecPresetLoad == InitPresetLoad /\ [][NextPresetLoad]_vars

\* the inputs of the form that a preset restores
RestoredInputs ==
    {"search_term", "min_freq", "max_freq", "creator_filter", "item_types", "languages",
     "collections", "start_year", "end_year"}

\* the selected entry of the page's store is the preset that a save from form
\* f and query made
SavedFrom(f, query) ==
    /\ call.op = "load_filter_preset"
    /\ call.preset_index # None
    /\ call.preset_index[1] < Len(filter_presets_data)
    /\ \E now \in PresetLoadTimestamps :
           filter_presets_data[call.preset_index[1] + 1]
               = NewPreset(SubSeq(filter_presets_data, 1, call.preset_index[1]), f, query, now)

\* C27: after a saved preset is selected, the search term, the frequency
\* bounds, the creator filter, the item types, the languages, the collections
\* and the years of the form, and the boolean query, are those of the form the
\* preset was saved from.
C27_RoundTrip ==
    \A f \in PresetLoadForms, query \in PresetLoadQueries :
        SavedFrom(f, query) =>
            /\ \A k \in RestoredInputs : form[k] = f[k]
            /\ boolean_query = query

\* a preset saved from the full form has been selected after a second preset
\* was saved from a form without a search term
C27_Witness ==
    /\ SavedFrom(FullForm, <<"a"," ","O","R"," ","c">>)
    /\ Len(filter_presets_data) = 2
    /\ call.preset_index = Some(0)
    /\ filter_presets_data[2].criteria.search_terms = None

(***************************************************************************)
(* The methods of one TagProcessor in any order: SpecProcessor.            *)
(***************************************************************************)
\* tag names with surrounding and repeated spaces and with a separator
ProcessorTagsData ==
    { << DictTag(<<" ","a"," "," ","b">>, Some(2)), DictTag(<<"a"," ","b">>, Some(1)),
         DictTag(<<"a","-","b">>, Some(3)), StrTag(<<"c">>) >>,
      << DictTag(<<"a">>, Some(2)) >> }

ProcessorItemLists == { <<Library[1], Library[2]>>, <<Library[3], Library[6], Library[2]>> }

ProcessorCriteria ==
    { NoCriteria, [NoCriteria EXCEPT !.item_types = Some(<<Book>>), !.start_year = Some(2000)] }

InitProcessor ==
    /\ tags_data \in ProcessorTagsData
    /\ items_source \in ProcessorItemLists
    /\ boolean_query \in {<<"a"," ","O","R"," ","c">>, <<" ","N","o","t"," ","a">>}
    /\ preset_input \in {None} \X ProcessorCriteria
    /\ Constructed
    /\ PageServed

NextProcessor ==
    \/ ProcessZoteroTags
    \/ ProcessItemsTags
    \/ ProcessItemsWithMetadata
    \/ \E min_length \in {1, 2}, max_length \in {3, 50} : CleanTags(min_length, max_length)
    \/ \E min_freq \in {1, 2}, max_freq \in {None, Some(2)} :
           FilterByFrequency(min_freq, max_freq)
    \/ \E search_term \in {<<"A">>, <<"b">>} : SearchTags(search_term)
    \/ \E n \in {1, 2} : GetTopTags(n)
    \/ GetTagStatistics
    \/ \E query \in {<<>>, <<"A">>}, regex_pattern \in {<<>>, <<"b">>},
          tag_length_range \in {None, Some(<<1, 3>>)},
          exclude_patterns \in {<<>>, << <<"c">>, <<"-">> >>} :
           SearchTagsAdvanced(query, regex_pattern, tag_length_range, exclude_patterns)
    \/ GetTagsByBooleanQuery
    \/ FilterTagsByMetadata
    \/ \E min_cooccurrence \in {1, 2} : GetTagCooccurrenceMatrix(min_cooccurrence)
    \/ \E separator \in {<<"-">>, <<" ">>} : ParseHierarchicalTags(separator)

SpecProcessor == InitProcessor /\ [][NextProcessor]_vars

QueryMethods ==
    {"filter_by_frequency", "search_tags", "get_top_tags", "get_tag_statistics",
     "search_tags_advanced", "get_tags_by_boolean_query", "filter_tags_by_metadata",
     "get_tag_cooccurrence_matrix", "parse_hierarchical_tags"}

\* C28: a call of a query method leaves processed_tags, items_data and
\* metadata_cache as they were; processed_tags changes only in a call of
\* process_zotero_tags, process_items_tags, process_items_with_metadata or
\* clean_tags; and a query call repeated with the same arguments returns
\* what it returned before.
C28_QueriesReadOnly ==
    [][/\ call'.op \in QueryMethods =>
              UNCHANGED <<processed_tags, items_data, metadata_cache>>
       /\ processed_tags' # processed_tags =>
              call'.op \in {"process_zotero_tags", "process_items_tags",
                            "process_items_with_metadata", "clean_tags"}
       /\ (call'.op \in QueryMethods /\ call' = call) => ret' = ret]_vars

\* a query method has returned a proper part of a tag map that was ingested
\* with metadata and then cleaned
C28_Witness ==
    /\ call.op \in QueryMethods
    /\ call.op \notin {"get_tag_statistics", "get_tag_cooccurrence_matrix",
                        "parse_hierarchical_tags"}
    /\ metadata_cache # <<>>
    /\ processed_tags # CountTags(AllTags(items_data), <<>>)
    /\ ret # <<>> /\ Len(ret) < Len(processed_tags)

(***************************************************************************)
(* Related tags: SpecAnalysis.                                             *)
(* The tags data holds at most MaxAnalysisTags entries, or the whole pool. *)
(***************************************************************************)
MaxAnalysisTags == 2

AnalysisPool ==
    << DictTag(<<"x","m","l">>, Some(6)), DictTag(<<"m","l"," ","o","p","s">>, Some(2)),
       DictTag(<<"M","L">>, Some(1)), DictTag(<<"d","e","e","p"," ","m","l">>, Some(5)),
       DictTag(<<"m","l">>, Some(4)), DictTag(<<"o","p","s">>, Some(3)),
       DictTag(<<"o","p","s"," "," ","m","l">>, Some(5)) >>

AnalysisTargets == { <<>>, <<"m","l">>, <<"O","P","S">>, <<"l"," ","o">>, <<"z">> }

InitAnalysis ==
    /\ tags_data \in SeqsUpTo(Range(AnalysisPool), MaxAnalysisTags) \cup {AnalysisPool}
    /\ boolean_query = <<>>
    /\ items_source = <<>>
    /\ preset_input = <<None, NoCriteria>>
    /\ Constructed
    /\ form = NoForm
    /\ filter_presets_data = None
    /\ preferences = <<>>
    /\ target_tag \in AnalysisTargets
    /\ requests = NoRequests
    /\ write_order = <<>>

NextAnalysis ==
    \/ ProcessZoteroTags
    \/ AnalyzeTagRelationships

SpecAnalysis == InitAnalysis /\ [][NextAnalysis]_vars

\* the tag shares a word with the target or contains one of its words
RelatedTo(tag, target) ==
    \/ LowerWords(tag) \cap LowerWords(target) # {}
    \/ \E word \in LowerWords(target) : Contains(lower(tag), word)

====
